---------------------------- MODULE Spec2Model ----------------------------
(***************************************************************************)
(* RustPlus Raid Alarms: the relay server / relay client pair of           *)
(* relay_server.py, the length-prefixed framing they share, and the        *)
(* Telegram polling service of telegram_service.py.                        *)
(*                                                                         *)
(* Three state machines share this module, each with its own               *)
(* specification:                                                          *)
(*   SpecRelay     RelayServer (main thread + accept-loop threads),        *)
(*                 RelayClient objects and raw TCP peers, at the level of  *)
(*                 whole frames;                                           *)
(*   SpecFrame     one socket at the level of bytes: frames written with   *)
(*                 a 4-byte big-endian length, read back with _recv_exact; *)
(*   SpecTelegram  TelegramService: run(), poll_messages(),                *)
(*                 restart_service(), retry_connection(), stop().          *)
(***************************************************************************)
EXTENDS Integers, Sequences, FiniteSets, TLC

VARIABLES
    \* ---- RelayServer (relay_server.py:19-28) ----
    server_running,   \* self.running
    password_hash,    \* self.password_hash ("None" or a hash)
    clients,          \* self.clients: sequence of connection ids
    server_socket,    \* [gen, open]: the listening socket object of self.server_socket
    server_thread,    \* self.server_thread: id of the latest accept thread (0 = None)
    thread,           \* accept threads: id -> [pc, conn]
    bcast,            \* the main thread's position inside broadcast_message, and what
                      \* its last call started from and evicted
    nBroadcasts,      \* number of broadcast_message calls made so far
    \* ---- TCP connections ----
    conn,             \* id -> [srv, lsock, cli, s2c, c2s, owner]; owner is <<k>> for RelayClient k, <<>> for a raw peer
    \* ---- RelayClient objects (relay_server.py:306-312) ----
    client,           \* k -> [password, socket, running, pc, rx]
    \* ---- history of the relay run ----
    wrote,            \* c -> frames the server's sendall wrote on connection c
    rcvd,             \* c -> frames the server read during the handshake on c
    auth,             \* c -> outcome of the handshake on c
    consumed,         \* c -> message frames the RelayClient read from c
    emitted,          \* c -> contents emitted as message_received from c
    events,           \* number of calls and connections made from outside so far
    \* ---- one direction of one socket, in bytes ----
    wire,             \* bytes written and not yet received
    peer_closed,      \* the writing end has closed the socket
    sent,             \* payloads handed to sendall, in order
    written,          \* the byte string each sendall wrote, in order
    rx,               \* the reader: [pc, need, data] inside _recv_exact
    got,              \* payloads the reader recovered, in order
    \* ---- TelegramService (telegram_service.py:22-27) ----
    tg_running,       \* self.running
    tg_loop,          \* self.loop: "none", "open" or "closed"
    tg_thread,        \* the QThread: "none" when no thread runs, else where run() is
    config,           \* the shared config dict: last_message_id, filter_enabled, filter_keyword
    first_run,        \* poll_messages' local first_run
    last_update_id,   \* poll_messages' local last_update_id
    tg_updates,       \* updates Telegram holds for the bot, oldest first
    tg_next_id,       \* the next update id / message id Telegram will give out
    tg_emitted,       \* the message_received emissions, in order: [update, last_message_id, filter_enabled, filter_keyword]
    tg_pending,       \* "retry"/"restart" once the service has announced one, "none" after the next getMe
    tg_stopped,       \* stop() was called since tg_pending was set
    tg_getme,         \* number of getMe calls so far
    tg_events,        \* number of calls and posts from outside so far
    tg_halt,          \* stop() was called and no thread has been started since
    \* ---- FCMService (fcm_service.py:105-128) ----
    fcm_running,            \* self.running
    fcm_thread,             \* the QThread: "none" when no thread runs, else where run() is
    fcm_stop,               \* where the main thread is in stop(): "idle" when not in it
    fcm_listener_process,   \* self.fcm_listener_process: 0 for None, else a process id
    fcm_procs,              \* process id -> "unborn", "created", "alive" or "terminated"
    notification_queue,     \* self.notification_queue
    seen_notifications,     \* self.seen_notifications
    paired_server,          \* paired_server_id, _ip (with _port) and _name: [id, ip, name]
    fcm_filter_keyword,     \* config["fcm_filter_keyword"]
    fcm_handled,            \* the notifications _on_notification was given, in order, each with whether it was forwarded
    fcm_halt,               \* stop() was called and no thread has been started since
    fcm_events,             \* number of calls and notifications from outside so far
    \* ---- MainWindow (main.py:122-135) ----
    main_phase,             \* "loading" while __init__ runs load_plugins, then "running"
    plugins,                \* self.plugins: the loaded plugin objects, in load order
    plugin_enabled,         \* self.plugin_enabled: plugin name -> BOOLEAN
    loaded_plugin_keys,     \* self.loaded_plugin_keys: the plugin files loaded so far
    plugin_config,          \* the plugin_enabled_<name> keys of config: plugin name -> BOOLEAN
    scanned,                \* the plugin files the scan under way has gone past
    executed,               \* per plugin file, the times load_plugin ran exec_module on it
    main_last,              \* the message handled last: who handled it, what the plugins
                            \* and their enabled states were, which calls raised, and
                            \* the plugins whose on_telegram_message was called, in order
    \* ---- MainWindow: the source of alerts (main.py:119, 143-155) ----
    mode_phase,             \* "init" until the end of __init__, then "running"
    relay_mode,             \* config["relay_mode"]
    fcm_mode,               \* config["fcm_mode"]
    relay_client_server,    \* config holds "relay_client_server"
    relay_client,           \* self.relay_client: "None", else "idle" or "connected" (its running)
    telegram_isRunning,     \* telegram_service.isRunning()
    fcm_isRunning,          \* fcm_service.isRunning()
    timers                  \* the QTimer.singleShot calls not yet fired

relayVars == <<server_running, password_hash, clients, server_socket,
               server_thread, thread, bcast, nBroadcasts, conn, client,
               wrote, rcvd, auth, consumed, emitted, events>>

frameVars == <<wire, peer_closed, sent, written, rx, got>>

tgVars == <<tg_running, tg_loop, tg_thread, config, first_run, last_update_id,
            tg_updates, tg_next_id, tg_emitted, tg_pending, tg_stopped,
            tg_getme, tg_events, tg_halt>>

fcmVars == <<fcm_running, fcm_thread, fcm_stop, fcm_listener_process, fcm_procs,
             notification_queue, seen_notifications, paired_server,
             fcm_filter_keyword, fcm_handled, fcm_halt,
             fcm_events>>

mainVars == <<main_phase, plugins, plugin_enabled, loaded_plugin_keys,
              plugin_config, scanned, executed, main_last>>

modeVars == <<mode_phase, relay_mode, fcm_mode, relay_client_server,
              relay_client, telegram_isRunning, fcm_isRunning, timers>>

vars == <<relayVars, frameVars, tgVars, fcmVars, mainVars, modeVars>>

\* what the steps of one machine leave alone
notRelayVars == <<frameVars, tgVars, fcmVars, mainVars, modeVars>>
notFrameVars == <<relayVars, tgVars, fcmVars, mainVars, modeVars>>
notTgVars == <<relayVars, frameVars, fcmVars, mainVars, modeVars>>
notFcmVars == <<relayVars, frameVars, tgVars, mainVars, modeVars>>
notMainVars == <<relayVars, frameVars, tgVars, fcmVars, modeVars>>
notModeVars == <<relayVars, frameVars, tgVars, fcmVars, mainVars>>

-----------------------------------------------------------------------------
(* Bound of the relay model: the number of events that come from outside    *)
(* (calls of the main window into RelayServer and RelayClient, connections  *)
(* and closes of raw peers).  Connection ids, thread ids and broadcast       *)
(* numbers are bounded by it.                                                *)

MaxEvents == 5

Conns == 1..MaxEvents
Threads == 1..MaxEvents
RelayClients == {1}

None == "None"
Passwords == {"p1", "p2"}
\* the password the server is given, and what a RelayClient may be given
ServerPasswords == {"p1"}
ClientPasswords == Passwords \cup {None}

-----------------------------------------------------------------------------
(* Pure helpers *)

\* hashlib.sha256(password).hexdigest(): distinct passwords, distinct digests;
\* an empty/None password hashes to None.
_hash_password(password) ==
    CASE password = "p1" -> "h1"
      [] password = "p2" -> "h2"
      [] OTHER -> None

Hashes == {_hash_password(p) : p \in Passwords}

Frame(t, content, h) == [type |-> t, content |-> content, password_hash |-> h]

AuthRequired == Frame("auth_required", 0, None)
AuthSuccess == Frame("auth_success", 0, None)
AuthFailed == Frame("auth_failed", 0, None)
AuthResponse(h) == Frame("auth_response", 0, h)
Message(m) == Frame("message", m, None)

RECURSIVE SeqRemove(_, _)
\* list.remove(x): drops the first occurrence of x
SeqRemove(s, x) ==
    IF s = <<>> THEN <<>>
    ELSE IF Head(s) = x THEN Tail(s)
    ELSE <<Head(s)>> \o SeqRemove(Tail(s), x)

RECURSIVE RemoveAll(_, _)
RemoveAll(s, xs) ==
    IF xs = <<>> THEN s ELSE RemoveAll(SeqRemove(s, Head(xs)), Tail(xs))

Range(s) == {s[i] : i \in 1..Len(s)}

RECURSIVE IsSubseq(_, _)
IsSubseq(a, b) ==
    IF a = <<>> THEN TRUE
    ELSE IF b = <<>> THEN FALSE
    ELSE IF Head(a) = Head(b) THEN IsSubseq(Tail(a), Tail(b))
    ELSE IsSubseq(a, Tail(b))

RECURSIVE Contents(_)
\* the contents of the message frames of a frame sequence, in order
Contents(fs) ==
    IF fs = <<>> THEN <<>>
    ELSE IF Head(fs).type = "message"
         THEN <<Head(fs).content>> \o Contents(Tail(fs))
         ELSE Contents(Tail(fs))

-----------------------------------------------------------------------------
(* Initial state: RelayServer(port=5555), no connection, no RelayClient yet   *)
(* (MainWindow.relay_client is None).                                        *)

FreeConn == [srv |-> "free", lsock |-> 0, cli |-> "closed",
             s2c |-> <<>>, c2s |-> <<>>, owner |-> <<>>]

BcastIdle == [pc |-> "idle", i |-> 0, msg |-> 0, disconnected |-> <<>>,
              before |-> <<>>]

RelayInit ==
    /\ server_running = FALSE
    /\ password_hash = None
    /\ clients = <<>>
    /\ server_socket = [gen |-> 0, open |-> FALSE]
    /\ server_thread = 0
    /\ thread = [t \in Threads |-> [pc |-> "unborn", conn |-> 0]]
    /\ bcast = BcastIdle
    /\ nBroadcasts = 0
    /\ conn = [c \in Conns |-> FreeConn]
    /\ client = [k \in RelayClients |->
                    [password |-> None, socket |-> 0, running |-> FALSE,
                     pc |-> "idle", rx |-> "none"]]
    /\ wrote = [c \in Conns |-> <<>>]
    /\ rcvd = [c \in Conns |-> <<>>]
    /\ auth = [c \in Conns |-> "none"]
    /\ consumed = [c \in Conns |-> <<>>]
    /\ emitted = [c \in Conns |-> <<>>]
    /\ events = 0


-----------------------------------------------------------------------------
(* RelayServer: the main (GUI) thread.  start(), stop(), set_password() and  *)
(* broadcast_message() are slots of the main window and run one at a time.   *)

MainIdle == bcast.pc = "idle"

\* one more event from outside, within the bound
Outside == events < MaxEvents /\ events' = events + 1

\* MainWindow.toggle of "clan server" mode calls set_password(password) with a
\* non-empty password right before start() (main.py:2765-2772).
SetPassword(p) ==
    /\ Outside
    /\ MainIdle
    /\ ~server_running
    /\ password_hash' = _hash_password(p)
    /\ UNCHANGED <<server_running, clients, server_socket, server_thread,
                   thread, bcast, nBroadcasts, conn, client, wrote, rcvd,
                   auth, consumed, emitted>>
    /\ UNCHANGED notRelayVars

\* start(): bind/listen succeeded; a new accept thread is started.
Start ==
    /\ Outside
    /\ MainIdle
    /\ ~server_running
    /\ server_running' = TRUE
    /\ clients' = <<>>
    /\ server_socket' = [gen |-> server_socket.gen + 1, open |-> TRUE]
    /\ server_thread' = server_thread + 1
    /\ thread' = [thread EXCEPT ![server_thread + 1] =
                      [pc |-> "accept", conn |-> 0]]
    /\ UNCHANGED <<password_hash, bcast, nBroadcasts, conn, client, wrote,
                   rcvd, auth, consumed, emitted>>
    /\ UNCHANGED notRelayVars

\* start(): socket()/bind()/listen() raised (port taken): running is set
\* back to False and no thread is started.
StartFail ==
    /\ Outside
    /\ MainIdle
    /\ ~server_running
    /\ server_running' = FALSE
    /\ clients' = <<>>
    /\ server_socket' = [server_socket EXCEPT !.open = FALSE]
    /\ UNCHANGED <<password_hash, server_thread, thread, bcast, nBroadcasts,
                   conn, client, wrote, rcvd, auth, consumed,
                   emitted>>
    /\ UNCHANGED notRelayVars

\* socket.close() on the server's end: what the peer sent and was not read is
\* dropped
CloseServerSide(cn, c) ==
    [cn EXCEPT ![c].srv = "closed", ![c].c2s = <<>>, ![c].lsock = 0]

\* server_thread.join(timeout=2): a thread blocked in accept() (1 s timeout)
\* sees running False and ends within the join; a thread inside the blocking
\* handshake (10 s timeout per recv) may outlive it.
JoinThread(t, th) ==
    IF t # 0 /\ th[t].pc = "accept"
    THEN [th EXCEPT ![t] = [pc |-> "dead", conn |-> 0]]
    ELSE th

\* stop(): closes every listed client socket, empties the list, closes the
\* listening socket (resetting what waits in its backlog), joins the thread.
Stop ==
    /\ Outside
    /\ MainIdle
    /\ server_running' = FALSE
    /\ clients' = <<>>
    /\ server_socket' = [server_socket EXCEPT !.open = FALSE]
    /\ conn' = [c \in Conns |->
                  IF c \in Range(clients)
                     \/ (conn[c].srv = "backlog" /\ conn[c].lsock = server_socket.gen)
                  THEN CloseServerSide(conn, c)[c]
                  ELSE conn[c]]
    /\ thread' = JoinThread(server_thread, thread)
    /\ UNCHANGED <<password_hash, server_thread, bcast, nBroadcasts, client,
                   wrote, rcvd, auth, consumed, emitted>>
    /\ UNCHANGED notRelayVars

\* sendall on connection c: it succeeds while the peer's socket is open; once
\* the peer has closed it either still succeeds (the bytes are lost) or raises.
SendOutcomes(c) ==
    IF conn[c].srv # "open" THEN {"raise"}
    ELSE IF conn[c].cli = "open" THEN {"ok"}
    ELSE {"ok", "raise"}

\* what a successful sendall of frame f does to the connection (what a raw
\* peer leaves unread is not kept)
Deliver(cn, c, f) ==
    IF cn[c].cli = "open" /\ cn[c].owner # <<>>
    THEN [cn EXCEPT ![c].s2c = Append(@, f)]
    ELSE cn

\* broadcast_message(message), lines 210-223: the running check and the packet.
BroadcastBegin ==
    /\ Outside
    /\ MainIdle
    /\ nBroadcasts' = nBroadcasts + 1
    /\ bcast' = IF server_running
                THEN [pc |-> "send", i |-> 1, msg |-> nBroadcasts + 1,
                      disconnected |-> <<>>, before |-> clients]
                ELSE bcast
    /\ UNCHANGED <<server_running, password_hash, clients, server_socket,
                   server_thread, thread, conn, client, wrote, rcvd, auth, consumed, emitted>>
    /\ UNCHANGED notRelayVars

\* the frame broadcast_message writes to each client
BroadcastFrames(m) == <<Message(m)>>

\* broadcast_message, lines 224-229: one iteration of "for client in
\* self.clients"; the list iterator goes by index over the live list.
BroadcastSend ==
    /\ bcast.pc = "send"
    /\ bcast.i <= Len(clients)
    /\ LET c == clients[bcast.i] IN
       \E o \in SendOutcomes(c) :
          IF o = "ok"
          THEN /\ conn' = IF conn[c].cli = "open" /\ conn[c].owner # <<>>
                          THEN [conn EXCEPT ![c].s2c = @ \o BroadcastFrames(bcast.msg)]
                          ELSE conn
               /\ wrote' = [wrote EXCEPT ![c] = @ \o BroadcastFrames(bcast.msg)]
               /\ bcast' = [bcast EXCEPT !.i = @ + 1]
          ELSE /\ bcast' = [bcast EXCEPT !.i = @ + 1,
                                         !.disconnected = Append(@, c)]
               /\ UNCHANGED <<conn, wrote>>
    /\ UNCHANGED <<events, server_running, password_hash, clients, server_socket,
                   server_thread, thread, nBroadcasts, client, rcvd, auth, consumed, emitted>>
    /\ UNCHANGED notRelayVars

\* the eviction loop left out
Evict_Keeping(list, disconnected) == list

\* the client list after the eviction loop of lines 232-233
Evict(list, disconnected) == RemoveAll(list, disconnected)

\* broadcast_message, lines 231-240: the iterator is exhausted; every client
\* whose send raised is removed from the list and its socket closed.
BroadcastEnd ==
    /\ bcast.pc = "send"
    /\ bcast.i > Len(clients)
    /\ clients' = Evict(clients, bcast.disconnected)
    /\ conn' = [c \in Conns |->
                  IF c \in Range(bcast.disconnected)
                  THEN CloseServerSide(conn, c)[c]
                  ELSE conn[c]]
    /\ bcast' = [bcast EXCEPT !.pc = "idle", !.i = 0]
    /\ UNCHANGED <<events, server_running, password_hash, server_socket,
                   server_thread, thread, nBroadcasts, client, wrote, rcvd,
                   auth, consumed, emitted>>
    /\ UNCHANGED notRelayVars

-----------------------------------------------------------------------------
(* RelayServer: the accept-loop threads (_accept_connections).              *)

Backlog == {c \in Conns : conn[c].srv = "backlog" /\ conn[c].lsock = server_socket.gen}

Alive(t) == thread[t].pc \in {"accept", "auth"}

\* "while self.running" is false: the thread leaves _accept_connections.
ThreadExit(t) ==
    /\ thread[t].pc = "accept"
    /\ ~server_running
    /\ thread' = [thread EXCEPT ![t] = [pc |-> "dead", conn |-> 0]]
    /\ UNCHANGED <<events, server_running, password_hash, clients, server_socket,
                   server_thread, bcast, nBroadcasts, conn, client, wrote,
                   rcvd, auth, consumed, emitted>>
    /\ UNCHANGED notRelayVars

\* lines 128-145 without a password: accept() returns the oldest waiting
\* connection of self.server_socket and it is appended to the list.
AcceptOpen(t) ==
    /\ thread[t].pc = "accept"
    /\ server_running
    /\ server_socket.open
    /\ Backlog # {}
    /\ password_hash = None
    /\ LET c == CHOOSE x \in Backlog : \A y \in Backlog : x <= y IN
         /\ conn' = [conn EXCEPT ![c].srv = "open"]
         /\ clients' = Append(clients, c)
    /\ UNCHANGED <<events, server_running, password_hash, server_socket,
                   server_thread, thread, bcast, nBroadcasts, client, wrote,
                   rcvd, auth, consumed, emitted>>
    /\ UNCHANGED notRelayVars

\* lines 128-135 and 158-165 with a password: accept(), then the challenge is
\* written and the thread blocks in _recv_exact; if the challenge's sendall
\* raises, _authenticate_client returns False and the socket is closed.
AcceptChallenge(t) ==
    /\ thread[t].pc = "accept"
    /\ server_running
    /\ server_socket.open
    /\ Backlog # {}
    /\ password_hash # None
    /\ LET c == CHOOSE x \in Backlog : \A y \in Backlog : x <= y
           opened == [conn EXCEPT ![c].srv = "open"]
       IN \E o \in (IF conn[c].cli = "open" THEN {"ok"} ELSE {"ok", "raise"}) :
            IF o = "ok"
            THEN /\ conn' = Deliver(opened, c, AuthRequired)
                 /\ wrote' = [wrote EXCEPT ![c] = Append(@, AuthRequired)]
                 /\ auth' = [auth EXCEPT ![c] = "pending"]
                 /\ thread' = [thread EXCEPT ![t] = [pc |-> "auth", conn |-> c]]
            ELSE /\ conn' = CloseServerSide(conn, c)
                 /\ auth' = [auth EXCEPT ![c] = "failed"]
                 /\ UNCHANGED <<wrote, thread>>
    /\ UNCHANGED <<events, server_running, password_hash, clients, server_socket,
                   server_thread, bcast, nBroadcasts, client, rcvd,
                   consumed, emitted>>
    /\ UNCHANGED notRelayVars

\* the comparison replaced by one that accepts every hash
HashMatches_Accepting(client_password_hash, server_hash) == TRUE

\* line 182: client_password_hash == self.password_hash
HashMatches(client_password_hash, server_hash) ==
    client_password_hash = server_hash

\* the type check of line 177 left out
IsAuthResponse_Unchecked(f) == TRUE

\* line 177: the frame is an auth_response
IsAuthResponse(f) == f.type = "auth_response"

\* lines 166-194 and 135-145: the response frame has arrived.  A frame of
\* another type returns False; otherwise the hash is compared with
\* self.password_hash, the result frame is written, and on success the
\* connection is appended to the list.  A failed handshake closes the socket.
AuthRecv(t) ==
    /\ thread[t].pc = "auth"
    /\ LET c == thread[t].conn IN
       /\ conn[c].c2s # <<>>
       /\ LET f == Head(conn[c].c2s)
              popped == [conn EXCEPT ![c].c2s = Tail(@)]
              closed == CloseServerSide(popped, c)
          IN
          /\ rcvd' = [rcvd EXCEPT ![c] = Append(@, f)]
          /\ thread' = [thread EXCEPT ![t] = [pc |-> "accept", conn |-> 0]]
          /\ IF ~IsAuthResponse(f)
             THEN /\ conn' = closed
                  /\ auth' = [auth EXCEPT ![c] = "failed"]
                  /\ UNCHANGED <<wrote, clients>>
             ELSE /\ \E o \in (IF conn[c].cli = "open" THEN {"ok"} ELSE {"ok", "raise"}) :
                       IF HashMatches(f.password_hash, password_hash)
                       THEN IF o = "ok"
                            THEN /\ conn' = Deliver(popped, c, AuthSuccess)
                                 /\ wrote' = [wrote EXCEPT ![c] = Append(@, AuthSuccess)]
                                 /\ auth' = [auth EXCEPT ![c] = "ok"]
                                 /\ clients' = Append(clients, c)
                            ELSE /\ conn' = closed
                                 /\ auth' = [auth EXCEPT ![c] = "failed"]
                                 /\ UNCHANGED <<wrote, clients>>
                       ELSE /\ conn' = closed
                            /\ auth' = [auth EXCEPT ![c] = "failed"]
                            /\ wrote' = IF o = "ok"
                                        THEN [wrote EXCEPT ![c] = Append(@, AuthFailed)]
                                        ELSE wrote
                            /\ UNCHANGED clients
    /\ UNCHANGED <<events, server_running, password_hash, server_socket,
                   server_thread, bcast, nBroadcasts, client, consumed,
                   emitted>>
    /\ UNCHANGED notRelayVars

\* lines 166-173, 196-198 and 135-138: recv returned b'' (peer closed), or
\* raised (10 s timeout, reset): _authenticate_client returns False and the
\* socket is closed.
AuthAbort(t) ==
    /\ thread[t].pc = "auth"
    /\ LET c == thread[t].conn IN
       /\ conn[c].c2s = <<>>
       /\ conn' = CloseServerSide(conn, c)
       /\ auth' = [auth EXCEPT ![c] = "failed"]
    /\ thread' = [thread EXCEPT ![t] = [pc |-> "accept", conn |-> 0]]
    /\ UNCHANGED <<events, server_running, password_hash, clients, server_socket,
                   server_thread, bcast, nBroadcasts, client, wrote, rcvd, consumed, emitted>>
    /\ UNCHANGED notRelayVars

-----------------------------------------------------------------------------
(* RelayClient: connect() with the inline _handle_auth, the receive thread   *)
(* (_receive_messages) and disconnect().                                     *)

FreeIds == {c \in Conns : conn[c].srv = "free"}
NewId == CHOOSE c \in FreeIds : \A d \in FreeIds : c <= d

\* the client closes its socket: what it has not read is dropped
CloseClientSide(cn, c) == [cn EXCEPT ![c].cli = "closed", ![c].s2c = <<>>]

\* connect(), lines 320-341, of the RelayClient in MainWindow.relay_client
\* (on_start_clicked), or of a new RelayClient(server_url, password=pw) that
\* import_server_code puts there after disconnecting the old one
\* (main.py:3216-3223): not running, socket.connect() succeeds against the
\* listening socket (the connection waits in its backlog); _handle_auth then
\* blocks for the first frame.
Connect(k, pw) ==
    /\ Outside
    /\ client[k].pc = "idle"
    /\ ~client[k].running
    /\ IF client[k].socket = 0 THEN TRUE
       ELSE conn[client[k].socket].cli = "closed"
    /\ server_socket.open
    /\ FreeIds # {}
    /\ conn' = [conn EXCEPT ![NewId] =
                  [srv |-> "backlog", lsock |-> server_socket.gen,
                   cli |-> "open", s2c |-> <<>>, c2s |-> <<>>, owner |-> <<k>>]]
    /\ client' = [client EXCEPT ![k].socket = NewId, ![k].pc = "auth_first",
                                ![k].password = pw,
                                ![k].rx = IF pw = client[k].password THEN @
                                          ELSE "none"]
    /\ UNCHANGED <<server_running, password_hash, clients, server_socket,
                   server_thread, thread, bcast, nBroadcasts, wrote, rcvd,
                   auth, consumed, emitted>>
    /\ UNCHANGED notRelayVars

\* connect(), lines 344-349: _handle_auth returned False
AuthFailedClient(cl, k) ==
    [cl EXCEPT ![k].running = FALSE, ![k].pc = "idle"]

\* connect(), lines 351-355: _handle_auth returned True; the receive thread
\* is started
Connected(cl, k) ==
    [cl EXCEPT ![k].running = TRUE, ![k].pc = "idle", ![k].rx = "recv"]

\* what the client keeps of a frame it read: a message frame is recorded as
\* consumed
Consume(log, f) == IF f.type = "message" THEN Append(log, f.content) ELSE log

\* _handle_auth, lines 368-394 and 415-420: the first frame has arrived.
\* auth_required without a password returns False; with one, the hash is
\* sent and the result awaited; any other frame is taken as "no auth
\* required" and dropped.
HandleAuthFirst(k) ==
    /\ client[k].pc = "auth_first"
    /\ LET c == client[k].socket IN
       /\ conn[c].s2c # <<>>
       /\ LET f == Head(conn[c].s2c)
              popped == [conn EXCEPT ![c].s2c = Tail(@)]
          IN
          IF f.type = "auth_required"
          THEN IF client[k].password = None
               THEN /\ conn' = CloseClientSide(popped, c)
                    /\ client' = AuthFailedClient(client, k)
                    /\ UNCHANGED consumed
               ELSE /\ conn' = [popped EXCEPT ![c].c2s =
                                   IF conn[c].srv = "closed" THEN @
                                   ELSE Append(@, AuthResponse(
                                            _hash_password(client[k].password)))]
                    /\ client' = [client EXCEPT ![k].pc = "auth_result"]
                    /\ UNCHANGED consumed
          ELSE /\ conn' = popped
               /\ client' = Connected(client, k)
               /\ consumed' = [consumed EXCEPT ![c] = Consume(@, f)]
    /\ UNCHANGED <<events, server_running, password_hash, clients, server_socket,
                   server_thread, thread, bcast, nBroadcasts, wrote, rcvd,
                   auth, emitted>>
    /\ UNCHANGED notRelayVars

\* _handle_auth, lines 370-372: the server closed the socket before sending
\* anything: _recv_exact returns None and _handle_auth returns True.
HandleAuthFirstEOF(k) ==
    /\ client[k].pc = "auth_first"
    /\ LET c == client[k].socket IN
       /\ conn[c].s2c = <<>>
       /\ conn[c].srv = "closed"
    /\ client' = Connected(client, k)
    /\ UNCHANGED <<events, server_running, password_hash, clients, server_socket,
                   server_thread, thread, bcast, nBroadcasts, conn, wrote,
                   rcvd, auth, consumed, emitted>>
    /\ UNCHANGED notRelayVars

\* _handle_auth, lines 369-370 and 422-424: nothing arrived within the 10 s
\* socket timeout (or recv raised): returns False, connect() closes the socket.
HandleAuthFirstTimeout(k) ==
    /\ client[k].pc = "auth_first"
    /\ LET c == client[k].socket IN
       /\ conn[c].s2c = <<>>
       /\ conn' = CloseClientSide(conn, c)
    /\ client' = AuthFailedClient(client, k)
    /\ UNCHANGED <<events, server_running, password_hash, clients, server_socket,
                   server_thread, thread, bcast, nBroadcasts, wrote, rcvd,
                   auth, consumed, emitted>>
    /\ UNCHANGED notRelayVars

\* _handle_auth, lines 396-414: the result frame has arrived.
HandleAuthResult(k) ==
    /\ client[k].pc = "auth_result"
    /\ LET c == client[k].socket IN
       /\ conn[c].s2c # <<>>
       /\ IF Head(conn[c].s2c).type = "auth_success"
          THEN /\ conn' = [conn EXCEPT ![c].s2c = Tail(@)]
               /\ client' = Connected(client, k)
          ELSE /\ conn' = CloseClientSide(conn, c)
               /\ client' = AuthFailedClient(client, k)
    /\ UNCHANGED <<events, server_running, password_hash, clients, server_socket,
                   server_thread, thread, bcast, nBroadcasts, wrote, rcvd,
                   auth, consumed, emitted>>
    /\ UNCHANGED notRelayVars

\* _handle_auth, lines 397-404 and 422-424: EOF, timeout or error while
\* waiting for the result: returns False.
HandleAuthResultAbort(k) ==
    /\ client[k].pc = "auth_result"
    /\ LET c == client[k].socket IN
       /\ conn[c].s2c = <<>>
       /\ conn' = CloseClientSide(conn, c)
    /\ client' = AuthFailedClient(client, k)
    /\ UNCHANGED <<events, server_running, password_hash, clients, server_socket,
                   server_thread, thread, bcast, nBroadcasts, wrote, rcvd,
                   auth, consumed, emitted>>
    /\ UNCHANGED notRelayVars

\* a message emitted twice
Emit_Twice(log, f) ==
    IF f.type = "message" THEN log \o <<f.content, f.content>> ELSE log

\* lines 445-446: message_received.emit(packet['content'])
Emit(log, f) == IF f.type = "message" THEN Append(log, f.content) ELSE log

\* _receive_messages, lines 428-446: one frame is read and, if it is a
\* message, emitted.
RxFrame(k) ==
    /\ client[k].rx = "recv"
    /\ client[k].running
    /\ LET c == client[k].socket IN
       /\ conn[c].s2c # <<>>
       /\ LET f == Head(conn[c].s2c) IN
          /\ conn' = [conn EXCEPT ![c].s2c = Tail(@)]
          /\ consumed' = [consumed EXCEPT ![c] = Consume(@, f)]
          /\ emitted' = [emitted EXCEPT ![c] = Emit(@, f)]
    /\ UNCHANGED <<events, server_running, password_hash, clients, server_socket,
                   server_thread, thread, bcast, nBroadcasts, client, wrote,
                   rcvd, auth>>
    /\ UNCHANGED notRelayVars

\* the loop ending without line 454
LoopEnded_StillRunning(cl, k) == [cl EXCEPT ![k].rx = "done"]

\* the RelayClient after the receive loop has ended (line 454)
LoopEnded(cl, k) == [cl EXCEPT ![k].running = FALSE, ![k].rx = "done"]

\* _receive_messages, lines 431-433, 438-440, 448-454: the server's end is
\* closed; recv returns b'' or raises (what was in flight may be lost), the
\* loop breaks and running is set to False.  The socket is left open.
RxEnd(k) ==
    /\ client[k].rx = "recv"
    /\ conn[client[k].socket].srv = "closed"
    /\ client' = LoopEnded(client, k)
    /\ UNCHANGED <<events, server_running, password_hash, clients, server_socket,
                   server_thread, thread, bcast, nBroadcasts, conn, wrote,
                   rcvd, auth, consumed, emitted>>
    /\ UNCHANGED notRelayVars

\* disconnect(), lines 466-481: running False, the socket closed, the receive
\* thread joined (its blocked recv fails on the closed socket and the loop
\* ends).
Disconnect(k) ==
    /\ Outside
    /\ client[k].pc = "idle"
    /\ client[k].socket # 0
    /\ conn[client[k].socket].cli = "open"
    /\ conn' = CloseClientSide(conn, client[k].socket)
    /\ client' = [client EXCEPT ![k].running = FALSE,
                                ![k].rx = IF @ = "recv" THEN "done" ELSE @]
    /\ UNCHANGED <<server_running, password_hash, clients, server_socket,
                   server_thread, thread, bcast, nBroadcasts, wrote, rcvd,
                   auth, consumed, emitted>>
    /\ UNCHANGED notRelayVars

-----------------------------------------------------------------------------
(* A raw TCP peer: any other program that connects to the server's port.  It *)
(* may send one frame of its choosing and may close.                         *)

RogueFrames == {Message(0)} \cup {AuthResponse(h) : h \in Hashes}

\* the peer connects and writes fs (no frame, or one frame) at once
RogueConnect(fs) ==
    /\ Outside
    /\ server_socket.open
    /\ FreeIds # {}
    /\ conn' = [conn EXCEPT ![NewId] =
                  [srv |-> "backlog", lsock |-> server_socket.gen,
                   cli |-> "open", s2c |-> <<>>, c2s |-> fs, owner |-> <<>>]]
    /\ UNCHANGED <<server_running, password_hash, clients, server_socket,
                   server_thread, thread, bcast, nBroadcasts, client, wrote,
                   rcvd, auth, consumed, emitted>>
    /\ UNCHANGED notRelayVars

RogueClose(c) ==
    /\ Outside
    /\ conn[c].owner = <<>>
    /\ conn[c].cli = "open"
    /\ conn' = [conn EXCEPT ![c].cli = "closed"]
    /\ UNCHANGED <<server_running, password_hash, clients, server_socket,
                   server_thread, thread, bcast, nBroadcasts, client, wrote,
                   rcvd, auth, consumed, emitted>>
    /\ UNCHANGED notRelayVars

-----------------------------------------------------------------------------
(* The relay specification *)

RelayNext ==
    \/ \E p \in ServerPasswords : SetPassword(p)
    \/ Start
    \/ StartFail
    \/ Stop
    \/ BroadcastBegin
    \/ BroadcastSend
    \/ BroadcastEnd
    \/ \E t \in Threads : ThreadExit(t)
    \/ \E t \in Threads : AcceptOpen(t)
    \/ \E t \in Threads : AcceptChallenge(t)
    \/ \E t \in Threads : AuthRecv(t)
    \/ \E t \in Threads : AuthAbort(t)
    \/ \E k \in RelayClients, pw \in ClientPasswords : Connect(k, pw)
    \/ \E k \in RelayClients : HandleAuthFirst(k)
    \/ \E k \in RelayClients : HandleAuthFirstEOF(k)
    \/ \E k \in RelayClients : HandleAuthFirstTimeout(k)
    \/ \E k \in RelayClients : HandleAuthResult(k)
    \/ \E k \in RelayClients : HandleAuthResultAbort(k)
    \/ \E k \in RelayClients : RxFrame(k)
    \/ \E k \in RelayClients : RxEnd(k)
    \/ \E k \in RelayClients : Disconnect(k)
    \/ \E fs \in {<<>>} \cup {<<f>> : f \in RogueFrames} : RogueConnect(fs)
    \/ \E c \in Conns : RogueClose(c)


-----------------------------------------------------------------------------
(* Framing, in bytes.  Every write in relay_server.py has the same shape:    *)
(*   packet = json.dumps(...).encode('utf-8')                                *)
(*   sock.sendall(len(packet).to_bytes(4, 'big') + packet)                   *)
(* (lines 160-162, 184-186, 191-193, 216-226, 389-394), and every read is    *)
(*   length = int.from_bytes(_recv_exact(4), 'big'); _recv_exact(length)     *)
(* (lines 166-171, 370-375, 397-402, 431-438).                               *)

MaxFrames == 2
LongLen == 258

\* json.dumps(...).encode('utf-8') is never empty; three payloads, one of
\* them longer than one length byte can count
LongPayload == [i \in 1..LongLen |->
                   IF i = 1 THEN 123 ELSE IF i = LongLen THEN 125 ELSE 48 + (i % 2)]
Payloads == {<<123, 125>>, <<123, 49, 125>>, LongPayload}

\* int.to_bytes(4, 'big')
to_bytes(n) ==
    <<(n \div 16777216) % 256, (n \div 65536) % 256, (n \div 256) % 256, n % 256>>

\* int.from_bytes(b, 'little')
from_bytes_little(b) == b[1] + 256 * b[2] + 65536 * b[3] + 16777216 * b[4]

\* int.from_bytes(b, 'big')
from_bytes(b) == 16777216 * b[1] + 65536 * b[2] + 256 * b[3] + b[4]

\* packet_length + packet
EncodeFrame(packet) == to_bytes(Len(packet)) \o packet

FrameInit ==
    /\ wire = <<>>
    /\ peer_closed = FALSE
    /\ sent = <<>>
    /\ written = <<>>
    /\ rx = [pc |-> "len", need |-> 4, data |-> <<>>]
    /\ got = <<>>

\* sendall(packet_length + packet)
FrameSend(packet) ==
    /\ ~peer_closed
    /\ Len(sent) < MaxFrames
    /\ wire' = wire \o EncodeFrame(packet)
    /\ sent' = Append(sent, packet)
    /\ written' = Append(written, EncodeFrame(packet))
    /\ UNCHANGED <<peer_closed, rx, got>>
    /\ UNCHANGED notFrameVars

\* the writer closes its socket
FrameClose ==
    /\ ~peer_closed
    /\ peer_closed' = TRUE
    /\ UNCHANGED <<wire, sent, written, rx, got>>
    /\ UNCHANGED notFrameVars

\* the reader once _recv_exact has collected all the bytes it was asked for:
\* after the 4 length bytes it asks for the packet (a length of 0 makes
\* _recv_exact return b'', which ends the loop like a closed socket); after
\* the packet it hands the payload on and asks for the next length.
Collected(r) ==
    IF r.pc = "len"
    THEN IF from_bytes(r.data) = 0
         THEN [pc |-> "ended", need |-> 0, data |-> <<>>]
         ELSE [pc |-> "body", need |-> from_bytes(r.data), data |-> <<>>]
    ELSE [pc |-> "len", need |-> 4, data |-> <<>>]

\* one sock.recv(n - len(data)) inside _recv_exact: it returns m bytes, at
\* least one and at most what was asked for and what has arrived.
Recv(m) ==
    /\ rx.pc \in {"len", "body"}
    /\ m >= 1
    /\ m <= Len(wire)
    /\ m <= rx.need - Len(rx.data)
    /\ LET data == rx.data \o SubSeq(wire, 1, m) IN
       /\ wire' = SubSeq(wire, m + 1, Len(wire))
       /\ IF Len(data) < rx.need
          THEN /\ rx' = [rx EXCEPT !.data = data]
               /\ got' = got
          ELSE /\ rx' = Collected([rx EXCEPT !.data = data])
               /\ got' = IF rx.pc = "body" THEN Append(got, data) ELSE got
    /\ UNCHANGED <<peer_closed, sent, written>>
    /\ UNCHANGED notFrameVars

\* sock.recv returns b'' (the peer closed and nothing is left): _recv_exact
\* returns None and the caller stops reading.
RecvEOF ==
    /\ rx.pc \in {"len", "body"}
    /\ wire = <<>>
    /\ peer_closed
    /\ rx' = [pc |-> "ended", need |-> 0, data |-> <<>>]
    /\ UNCHANGED <<wire, peer_closed, sent, written, got>>
    /\ UNCHANGED notFrameVars

\* what one recv may return: a byte, a few bytes, or all that was asked for
\* and has arrived (any other size leaves the reader where a run of these
\* does)
ReadSizes ==
    {1, 2, 3} \cup
    (IF rx.need - Len(rx.data) <= Len(wire)
     THEN {rx.need - Len(rx.data)} ELSE {Len(wire)})

FrameNext ==
    \/ \E packet \in Payloads : FrameSend(packet)
    \/ FrameClose
    \/ \E m \in ReadSizes : Recv(m)
    \/ RecvEOF

-----------------------------------------------------------------------------
(* TelegramService.  start() and stop() are called by the main window; run() *)
(* and everything it calls execute on the QThread.  tg_thread is the place   *)
(* the thread has reached:                                                   *)
(*   "none"           no thread is running (QThread.isRunning() is False)    *)
(*   "run"            started, about to enter run() (line 31)                *)
(*   "get_me"         waiting for bot.get_me() (lines 67-69)                 *)
(*   "poll"           at "while self.running" of poll_messages (line 121)    *)
(*   "sleep"          in the interruptible sleep (lines 208-212)             *)
(*   "retry_sleep"    in retry_connection's time.sleep (line 273)            *)
(*   "retry_run"      retry_connection found running True and calls          *)
(*                    self.run() (line 278)                                  *)
(*   "restart_sleep"  in restart_service's time.sleep(3) (line 253)          *)

MaxTgEvents == 4
MaxPosts == 2

Texts == {"Raid Alarm", "hello"}
Keywords == {"", "RAID"}
UpdateKinds == {"message", "channel_post", "other"}

\* str.strip().lower(), for the texts and keywords of the model
lower(str) ==
    CASE str = "Raid Alarm" -> "raid alarm"
      [] str = "RAID" -> "raid"
      [] str = "Alarm" -> "alarm"
      [] str = "Rusty" -> "rusty"
      [] OTHER -> str

\* keyword in text, for the lower-case texts and keywords of the model
Contains(text, keyword) == keyword = "" \/ (keyword = "raid" /\ text = "raid alarm")

\* the filter that lets every text through
_passes_filter_Always(text) == TRUE

\* _passes_filter, lines 284-294
_passes_filter(text) ==
    LET enabled == config.filter_enabled
        keyword == lower(config.filter_keyword)
    IN  IF ~enabled THEN TRUE
        ELSE IF keyword = "" THEN TRUE
        ELSE Contains(lower(text), keyword)

\* QThread.isRunning(): true from start() until run() has returned
isRunning == tg_thread # "none"

TgInit ==
    /\ tg_running = FALSE
    /\ tg_loop = "none"
    /\ tg_thread = "none"
    /\ config = [last_message_id |-> 0, filter_enabled |-> FALSE,
                 filter_keyword |-> ""]
    /\ first_run = TRUE
    /\ last_update_id = 0
    /\ tg_updates = <<>>
    /\ tg_next_id = 1
    /\ tg_emitted = <<>>
    /\ tg_pending = "none"
    /\ tg_stopped = FALSE
    /\ tg_getme = 0
    /\ tg_events = 0
    /\ tg_halt = FALSE

TgOutside == tg_events < MaxTgEvents /\ tg_events' = tg_events + 1

\* telegram_service.start() from the main window (main.py:155, 2432): a
\* QThread that is running is left alone, otherwise the thread starts.
TgStart ==
    /\ TgOutside
    /\ tg_thread' = IF isRunning THEN tg_thread ELSE "run"
    /\ tg_halt' = (isRunning /\ tg_halt)
    /\ UNCHANGED <<tg_running, tg_loop, config, first_run, last_update_id,
                   tg_updates, tg_next_id, tg_emitted, tg_pending, tg_stopped,
                   tg_getme>>
    /\ UNCHANGED notTgVars

\* stop(), lines 214-227: running False; a waiting run_until_complete is
\* interrupted (the thread sees an exception at its next step); the wait of
\* up to 5 s does not change what the thread does.
TgStop ==
    /\ TgOutside
    /\ tg_running' = FALSE
    /\ tg_stopped' = TRUE
    /\ tg_halt' = TRUE
    /\ UNCHANGED <<tg_loop, tg_thread, config, first_run, last_update_id,
                   tg_updates, tg_next_id, tg_emitted, tg_pending, tg_getme>>
    /\ UNCHANGED notTgVars

\* someone posts in a chat the bot sees: Telegram queues an update.  Message
\* ids grow with time.
TgPost(kind, chat_ok, text) ==
    /\ TgOutside
    /\ tg_next_id <= MaxPosts
    /\ tg_updates' = Append(tg_updates,
                            [update_id |-> tg_next_id, kind |-> kind,
                             chat_ok |-> chat_ok, message_id |-> tg_next_id,
                             text |-> text])
    /\ tg_next_id' = tg_next_id + 1
    /\ UNCHANGED <<tg_running, tg_loop, tg_thread, config, first_run,
                   last_update_id, tg_emitted, tg_pending, tg_stopped, tg_getme,
                   tg_halt>>
    /\ UNCHANGED notTgVars

\* run() entered, lines 31-69, from the thread's start ("run") or from
\* retry_connection ("retry_run").  If running is already True it returns at
\* once: at top level the thread ends there; inside retry_connection control
\* falls back to the outer run()'s finally, which sets running False and ends
\* the thread.  Otherwise running becomes True, the loop is created and
\* get_me is awaited (the credentials are configured).
TgRunEnter(credentials_ok) ==
    /\ tg_thread \in {"run", "retry_run"}
    /\ IF tg_running
       THEN /\ tg_thread' = "none"
            /\ tg_running' = (tg_thread = "run")
            /\ tg_loop' = IF tg_thread = "run" \/ tg_loop = "none"
                          THEN tg_loop ELSE "closed"
            /\ UNCHANGED <<tg_getme, tg_pending>>
       ELSE IF ~credentials_ok
       THEN /\ tg_thread' = "none"
            /\ tg_running' = FALSE
            /\ tg_loop' = IF tg_thread = "run" \/ tg_loop = "none"
                          THEN tg_loop ELSE "closed"
            /\ UNCHANGED <<tg_getme, tg_pending>>
       ELSE /\ tg_running' = TRUE
            /\ tg_loop' = "open"
            /\ tg_thread' = "get_me"
            /\ tg_getme' = tg_getme + 1
            /\ tg_pending' = "none"
    /\ UNCHANGED <<config, first_run, last_update_id, tg_updates, tg_next_id,
                   tg_emitted, tg_stopped, tg_events, tg_halt>>
    /\ UNCHANGED notTgVars

\* get_me returned, lines 71-78 and 118-119: poll_messages starts.
TgGetMeOk ==
    /\ tg_thread = "get_me"
    /\ tg_thread' = "poll"
    /\ first_run' = TRUE
    /\ last_update_id' = 0
    /\ UNCHANGED <<tg_running, tg_loop, config, tg_updates, tg_next_id,
                   tg_emitted, tg_pending, tg_stopped, tg_getme, tg_events, tg_halt>>
    /\ UNCHANGED notTgVars

GetMeErrors == {"timeout", "unauthorized", "not_found", "telegram_error", "exception"}

\* does run()'s handler call retry_connection(10) for this error (lines 80-98)
Retries(err) == err \notin {"unauthorized", "not_found"}

\* the connection test failed, lines 80-114 and 267-273.  Unauthorized and
\* Not Found go straight to finally.  The others call retry_connection(10):
\* it returns at once if running is False, else it sleeps.
TgGetMeFail(err) ==
    /\ tg_thread = "get_me"
    /\ IF Retries(err) /\ tg_running
       THEN /\ tg_thread' = "retry_sleep"
            /\ tg_pending' = "retry"
            /\ tg_stopped' = FALSE
            /\ UNCHANGED <<tg_running, tg_loop>>
       ELSE /\ tg_thread' = "none"
            /\ tg_running' = FALSE
            /\ tg_loop' = "closed"
            /\ UNCHANGED <<tg_pending, tg_stopped>>
    /\ UNCHANGED <<config, first_run, last_update_id, tg_updates, tg_next_id,
                   tg_emitted, tg_getme, tg_events, tg_halt>>
    /\ UNCHANGED notTgVars

\* retry_connection after the sleep, lines 275-278 (then 99-114): if running
\* is still True it goes on to call self.run(); if not it returns, and run()'s
\* finally ends the thread.
TgRetryWake ==
    /\ tg_thread = "retry_sleep"
    /\ IF tg_running
       THEN /\ tg_thread' = "retry_run"
            /\ UNCHANGED <<tg_running, tg_loop>>
       ELSE /\ tg_thread' = "none"
            /\ tg_running' = FALSE
            /\ tg_loop' = "closed"
    /\ UNCHANGED <<config, first_run, last_update_id, tg_updates, tg_next_id,
                   tg_emitted, tg_pending, tg_stopped, tg_getme, tg_events, tg_halt>>
    /\ UNCHANGED notTgVars

\* on_filter_toggle, main.py:2468-2471
on_filter_toggle(state) ==
    /\ TgOutside
    /\ config' = [config EXCEPT !.filter_enabled = state]
    /\ UNCHANGED <<tg_running, tg_loop, tg_thread, first_run, last_update_id,
                   tg_updates, tg_next_id, tg_emitted, tg_pending, tg_stopped,
                   tg_getme, tg_halt>>
    /\ UNCHANGED notTgVars

\* on_filter_keyword_change, main.py:2473-2476
on_filter_keyword_change(keyword) ==
    /\ TgOutside
    /\ config' = [config EXCEPT !.filter_keyword = keyword]
    /\ UNCHANGED <<tg_running, tg_loop, tg_thread, first_run, last_update_id,
                   tg_updates, tg_next_id, tg_emitted, tg_pending, tg_stopped,
                   tg_getme, tg_halt>>
    /\ UNCHANGED notTgVars

\* getUpdates that takes no notice of the offset
get_updates_NoOffset(offset) == tg_updates

\* bot.get_updates(offset=...), lines 126-129: Telegram forgets the updates
\* below the offset and returns the rest; with no offset (None, here the
\* empty tuple) it returns every update it still holds.
get_updates(offset) ==
    IF offset = <<>> THEN tg_updates
    ELSE SelectSeq(tg_updates, LAMBDA u : u.update_id >= offset[1])

\* the first-run loop, lines 137-144: the last update of the configured chat
\* leaves its message id in config["last_message_id"]
RECURSIVE MarkSeen(_, _)
MarkSeen(updates, last_message_id) ==
    IF updates = <<>> THEN last_message_id
    ELSE LET update == Head(updates)
         IN  MarkSeen(Tail(updates),
                      IF update.kind \in {"message", "channel_post"} /\ update.chat_ok
                      THEN update.message_id
                      ELSE last_message_id)

\* the values the first-run loop assigns to config["last_message_id"], one
\* per update of the configured chat, in order (lines 141-144): no assignment
\* looks at the value it replaces
RECURSIVE MarkSeenWrites(_)
MarkSeenWrites(updates) ==
    IF updates = <<>> THEN <<>>
    ELSE LET update == Head(updates)
         IN  IF update.kind \in {"message", "channel_post"} /\ update.chat_ok
             THEN <<update.message_id>> \o MarkSeenWrites(Tail(updates))
             ELSE MarkSeenWrites(Tail(updates))

\* the normal loop with every emission made twice
RECURSIVE Process_Twice(_, _, _)
Process_Twice(updates, last_message_id, out) ==
    IF updates = <<>> THEN [last_message_id |-> last_message_id, emitted |-> out]
    ELSE LET update == Head(updates)
             e      == [update |-> update, last_message_id |-> last_message_id,
                        filter_enabled |-> config.filter_enabled,
                        filter_keyword |-> config.filter_keyword]
         IN  IF update.kind \in {"message", "channel_post"} /\ update.chat_ok
                /\ update.message_id > last_message_id
             THEN Process_Twice(Tail(updates), update.message_id, out \o <<e, e>>)
             ELSE Process_Twice(Tail(updates), last_message_id, out)

\* the normal loop, lines 153-176, as the pair of config["last_message_id"]
\* and the emissions: each with the update emitted, last_message_id and the
\* filter settings as they were when it was tested
RECURSIVE Process(_, _, _)
Process(updates, last_message_id, out) ==
    IF updates = <<>> THEN [last_message_id |-> last_message_id, emitted |-> out]
    ELSE LET update == Head(updates)
             take   == /\ update.kind \in {"message", "channel_post"}
                       /\ update.chat_ok
                       /\ update.message_id > last_message_id
                       /\ _passes_filter(update.text)
         IN  IF take
             THEN Process(Tail(updates), update.message_id,
                          Append(out, [update |-> update,
                                       last_message_id |-> last_message_id,
                                       filter_enabled |-> config.filter_enabled,
                                       filter_keyword |-> config.filter_keyword]))
             ELSE Process(Tail(updates), last_message_id, out)

\* poll_messages returns and run()'s finally runs, lines 99-114
TgFinally ==
    /\ tg_thread' = "none"
    /\ tg_running' = FALSE
    /\ tg_loop' = IF tg_loop = "none" THEN "none" ELSE "closed"

\* one iteration of the polling loop that gets an answer, lines 121-176: the
\* loop ends if running is False; else get_updates returns a batch, which is
\* marked as seen on a first run (and the loop continues without sleeping) or
\* processed normally.
TgPoll ==
    /\ tg_thread = "poll"
    /\ IF ~tg_running
       THEN /\ TgFinally
            /\ UNCHANGED <<config, first_run, last_update_id, tg_updates, tg_emitted>>
       ELSE LET offset  == IF last_update_id > 0 THEN <<last_update_id + 1>> ELSE <<>>
                updates == get_updates(offset)
                last    == IF updates = <<>> THEN last_update_id
                           ELSE updates[Len(updates)].update_id
            IN  /\ tg_updates' = updates
                /\ last_update_id' = last
                /\ first_run' = FALSE
                /\ UNCHANGED <<tg_running, tg_loop>>
                /\ IF first_run /\ updates # <<>>
                   THEN /\ config' = [config EXCEPT !.last_message_id =
                                          MarkSeen(updates, config.last_message_id)]
                        /\ tg_thread' = "poll"
                        /\ UNCHANGED tg_emitted
                   ELSE LET r == Process(updates, config.last_message_id, <<>>)
                        IN  /\ config' = [config EXCEPT !.last_message_id = r.last_message_id]
                            /\ tg_emitted' = tg_emitted \o r.emitted
                            /\ tg_thread' = "sleep"
    /\ UNCHANGED <<tg_next_id, tg_pending, tg_stopped, tg_getme, tg_events, tg_halt>>
    /\ UNCHANGED notTgVars

PollErrors == {"timeout", "connection", "other"}

\* one iteration whose get_updates raises, lines 178-205 and 229-253.  A
\* timeout of the wait and an error that is not connection-class go on to the
\* sleep, leaving first_run as it was.  A connection-class error calls
\* restart_service: running False, the loop closed and forgotten, then the
\* 3 s sleep.
TgPollError(err) ==
    /\ tg_thread = "poll"
    /\ tg_running
    /\ IF err = "connection"
       THEN /\ tg_running' = FALSE
            /\ tg_loop' = "none"
            /\ tg_thread' = "restart_sleep"
            /\ tg_pending' = "restart"
            /\ tg_stopped' = FALSE
       ELSE /\ tg_thread' = "sleep"
            /\ UNCHANGED <<tg_running, tg_loop, tg_pending, tg_stopped>>
    /\ UNCHANGED <<config, first_run, last_update_id, tg_updates, tg_next_id,
                   tg_emitted, tg_getme, tg_events, tg_halt>>
    /\ UNCHANGED notTgVars

\* the interruptible sleep is over, lines 208-212
TgSleepDone ==
    /\ tg_thread = "sleep"
    /\ tg_thread' = "poll"
    /\ UNCHANGED <<tg_running, tg_loop, config, first_run, last_update_id,
                   tg_updates, tg_next_id, tg_emitted, tg_pending, tg_stopped,
                   tg_getme, tg_events, tg_halt>>
    /\ UNCHANGED notTgVars

\* restart_service after its sleep, lines 255-265, then poll_messages returns
\* (line 190 or 203) and run()'s finally runs.  restart_service is running on
\* the service's own thread, inside run(): start() is called only if
\* isRunning() is False, before or after quit() and wait(5000), and a thread
\* waiting for itself returns from wait() at once.
TgRestartWake ==
    /\ tg_thread = "restart_sleep"
    /\ IF ~isRunning
       THEN /\ tg_thread' = "run"
            /\ UNCHANGED <<tg_running, tg_loop>>
       ELSE TgFinally
    /\ UNCHANGED <<config, first_run, last_update_id, tg_updates, tg_next_id,
                   tg_emitted, tg_pending, tg_stopped, tg_getme, tg_events, tg_halt>>
    /\ UNCHANGED notTgVars

TgThreadNext ==
    \/ \E credentials_ok \in BOOLEAN : TgRunEnter(credentials_ok)
    \/ TgGetMeOk
    \/ \E err \in GetMeErrors : TgGetMeFail(err)
    \/ TgRetryWake
    \/ TgPoll
    \/ \E err \in PollErrors : TgPollError(err)
    \/ TgSleepDone
    \/ TgRestartWake

TgNext ==
    \/ TgStart
    \/ TgStop
    \/ \E kind \in UpdateKinds, chat_ok \in BOOLEAN, text \in Texts :
           TgPost(kind, chat_ok, text)
    \/ \E state \in BOOLEAN : on_filter_toggle(state)
    \/ \E keyword \in Keywords : on_filter_keyword_change(keyword)
    \/ TgThreadNext

-----------------------------------------------------------------------------
(* FCMService.  start() and stop() are called by the main window; run() and  *)
(* _on_notification execute on the QThread; the listener is a subprocess     *)
(* that puts what it receives on notification_queue.  fcm_thread is the      *)
(* place the thread has reached in run():                                    *)
(*   "none"           no thread is running                                   *)
(*   "run"            started, about to enter run() (line 468)               *)
(*   "create"         about to create the Process object (lines 497-501)     *)
(*   "launch"         about to call fcm_listener_process.start() (line 502)  *)
(*   "announce"       about to read fcm_listener_process.pid (line 503)      *)
(*   "loop"           at "while self.running" (line 515)                     *)
(*   "finally"        running set False, at line 534                         *)
(*   "finally_alive"  at fcm_listener_process.is_alive() (line 535)          *)
(*   "finally_term"   at fcm_listener_process.terminate() (line 536)         *)
(* and fcm_stop the place the main thread has reached in stop():             *)
(*   "idle", "check" (line 731), "terminate" (lines 732-755),                *)
(*   "clear" (line 757), "wait" (lines 764-765).                             *)
(* Every statement reads self.fcm_listener_process again.  terminate()       *)
(* ends the listener: the worker installs no signal handler (lines 75-82).   *)

MaxFcmEvents == 4

Procs == 1..MaxFcmEvents

\* Python truth of an optional string
Truthy(x) == x # None /\ x # ""

\* what _on_notification reads of a notification: data persistent_id and
\* id, app_data channelId (type), and of the JSON body its type, the server
\* id, the server ip:port and the server name; text stands for title,
\* message and the string values of the body together
Notification(persistent_id, id, type, body_type, server_id, ip, name, text) ==
    [persistent_id |-> persistent_id, id |-> id, type |-> type,
     body_type |-> body_type, server_id |-> server_id, ip |-> ip,
     name |-> name, text |-> text]

Notifications ==
    { Notification("n1", None, "alarm", None, "s1", "ip1", "Rusty", "Raid Alarm"),
      Notification("", "n1", "alarm", None, "s1", "ip1", "Rusty", "Raid Alarm"),
      Notification(None, None, "alarm", None, "s1", "ip1", "Rusty", "Raid Alarm"),
      Notification("n2", None, "pairing", "server", "s1", "ip1", "Rusty", "hello"),
      Notification("n3", None, "other", None, "s1", "ip1", "Rusty", "Raid Alarm"),
      \* no channelId at all, and one in capitals
      Notification(None, None, None, None, "s1", "ip1", "Rusty", "Raid Alarm"),
      Notification(None, None, "Alarm", None, "s1", "ip1", "Rusty", "Raid Alarm"),
      \* another server id, another ip:port, both, and another name only
      Notification(None, None, "alarm", None, "s2", "ip1", "Rusty", "Raid Alarm"),
      Notification(None, None, "alarm", None, "s1", "ip2", "Rusty", "Raid Alarm"),
      Notification(None, None, "alarm", None, "s2", "ip2", "Rusty", "Raid Alarm"),
      Notification(None, None, "alarm", None, "s1", "ip1", "Dusty", "Raid Alarm"),
      \* no keyword in the text
      Notification(None, None, "alarm", None, "s1", "ip1", "Rusty", "hello") }

FcmKeywords == {"", "raid", "RAID"}

Unpaired == [id |-> None, ip |-> None, name |-> None]

\* data.get("persistent_id") or data.get("id"), line 560
notif_id(n) == IF Truthy(n.persistent_id) THEN n.persistent_id ELSE n.id

\* save_seen_notification, lines 169-176
save_seen_notification(seen, id) == seen \cup {id}

\* the notification handler that looks at no seen set
_on_notification_Unseen(n, seen, paired, keyword) ==
    [seen |-> seen, paired |-> paired, forward |-> TRUE]

\* the notification handler with the keyword tests left out
_on_notification_AnyText(n, seen, paired, keyword) ==
    LET id    == notif_id(n)
        seen1 == IF Truthy(id) THEN save_seen_notification(seen, id) ELSE seen
    IN  IF id \in seen
        THEN [seen |-> seen, paired |-> paired, forward |-> FALSE]
        ELSE [seen |-> seen1, paired |-> paired,
              forward |-> ~(n.type = "pairing" /\ n.body_type = "server")]

\* _on_notification, lines 543-717: the seen set and the pairing it leaves,
\* and whether it emits message_received
_on_notification(n, seen, paired, keyword) ==
    LET id    == notif_id(n)
        seen1 == IF Truthy(id) THEN save_seen_notification(seen, id) ELSE seen
        drop  == [seen |-> seen1, paired |-> paired, forward |-> FALSE]
        id_mismatch == Truthy(n.server_id) /\ Truthy(paired.id) /\ n.server_id # paired.id
        ip_mismatch == Truthy(paired.ip) /\ Truthy(n.ip) /\ paired.ip # n.ip
        \* computed at lines 668-669 and used by no decision
        name_mismatch == Truthy(paired.name) /\ Truthy(n.name)
                         /\ lower(paired.name) # lower(n.name)
        mandatory_keyword == lower(keyword)
    IN  IF id \in seen
        THEN [seen |-> seen, paired |-> paired, forward |-> FALSE]
        ELSE IF n.type = "pairing" /\ n.body_type = "server"
                /\ Truthy(n.server_id) /\ Truthy(n.ip)
        THEN [seen |-> seen1,
              paired |-> [id |-> n.server_id, ip |-> n.ip, name |-> n.name],
              forward |-> FALSE]
        ELSE IF paired.id # None /\ id_mismatch /\ ip_mismatch THEN drop
        ELSE IF Truthy(n.type) /\ lower(n.type) # "alarm" THEN drop
        ELSE IF ~Truthy(mandatory_keyword) THEN drop
        ELSE IF ~Contains(lower(n.text), mandatory_keyword) THEN drop
        ELSE [seen |-> seen1, paired |-> paired, forward |-> TRUE]

FcmInit ==
    /\ fcm_running = FALSE
    /\ fcm_thread = "none"
    /\ fcm_stop = "idle"
    /\ fcm_listener_process = 0
    /\ fcm_procs = [p \in Procs |-> "unborn"]
    /\ notification_queue = <<>>
    /\ seen_notifications = {}
    /\ paired_server = Unpaired
    /\ fcm_filter_keyword = ""
    /\ fcm_handled = <<>>
    /\ fcm_halt = FALSE
    /\ fcm_events = 0

\* one more call of the main window, which is not inside stop()
FcmOutside ==
    /\ fcm_stop = "idle"
    /\ fcm_events < MaxFcmEvents
    /\ fcm_events' = fcm_events + 1

\* fcm_service.start() (main.py:149, 2424, 2581): a running QThread is left
\* alone
FcmStart ==
    /\ FcmOutside
    /\ fcm_thread' = IF fcm_thread # "none" THEN fcm_thread ELSE "run"
    /\ fcm_halt' = (fcm_thread # "none" /\ fcm_halt)
    /\ UNCHANGED <<fcm_running, fcm_stop, fcm_listener_process, fcm_procs,
                   notification_queue, seen_notifications, paired_server,
                   fcm_filter_keyword, fcm_handled>>
    /\ UNCHANGED notFcmVars

\* on_fcm_keyword_change, main.py:2683-2692
on_fcm_keyword_change(kw) ==
    /\ FcmOutside
    /\ fcm_filter_keyword' = kw
    /\ UNCHANGED <<fcm_running, fcm_thread, fcm_stop, fcm_listener_process,
                   fcm_procs, notification_queue, seen_notifications,
                   paired_server, fcm_handled, fcm_halt>>
    /\ UNCHANGED notFcmVars

\* delete_pairing, lines 217-231
delete_pairing ==
    /\ FcmOutside
    /\ paired_server' = Unpaired
    /\ UNCHANGED <<fcm_running, fcm_thread, fcm_stop, fcm_listener_process,
                   fcm_procs, notification_queue, seen_notifications,
                   fcm_filter_keyword, fcm_handled, fcm_halt>>
    /\ UNCHANGED notFcmVars

\* a notification reaches a live listener subprocess, which puts it on the
\* queue (fcm_listener_worker.on_notification, lines 36-41)
FcmNotify(n) ==
    /\ fcm_events < MaxFcmEvents
    /\ fcm_events' = fcm_events + 1
    /\ \E p \in Procs : fcm_procs[p] = "alive"
    /\ notification_queue' = Append(notification_queue, n)
    /\ UNCHANGED <<fcm_running, fcm_thread, fcm_stop, fcm_listener_process,
                   fcm_procs, seen_notifications, paired_server,
                   fcm_filter_keyword, fcm_handled, fcm_halt>>
    /\ UNCHANGED notFcmVars

\* stop() begins, line 730
FcmStopBegin ==
    /\ FcmOutside
    /\ fcm_running' = FALSE
    /\ fcm_stop' = "check"
    /\ fcm_halt' = TRUE
    /\ UNCHANGED <<fcm_thread, fcm_listener_process, fcm_procs,
                   notification_queue, seen_notifications, paired_server,
                   fcm_filter_keyword, fcm_handled>>
    /\ UNCHANGED notFcmVars

\* Process.is_alive(): started and not ended
is_alive(p) == fcm_procs[p] = "alive"

\* stop(), line 731
FcmStopCheck ==
    /\ fcm_stop = "check"
    /\ fcm_stop' = IF fcm_listener_process # 0 /\ is_alive(fcm_listener_process)
                   THEN "terminate" ELSE "wait"
    /\ UNCHANGED <<fcm_running, fcm_thread, fcm_listener_process, fcm_procs,
                   notification_queue, seen_notifications, paired_server,
                   fcm_filter_keyword, fcm_handled, fcm_halt, fcm_events>>
    /\ UNCHANGED notFcmVars

\* stop(), lines 732-755: terminate(), join(timeout=2) and, if the process
\* is still alive then, the forced kill; either way the process has ended.
\* With no process, or one not yet started, terminate() raises and stop()
\* is left there.
FcmStopTerminate ==
    /\ fcm_stop = "terminate"
    /\ IF fcm_listener_process = 0 \/ fcm_procs[fcm_listener_process] = "created"
       THEN /\ fcm_stop' = "idle"
            /\ UNCHANGED fcm_procs
       ELSE /\ fcm_procs' = [fcm_procs EXCEPT ![fcm_listener_process] = "terminated"]
            /\ fcm_stop' = "clear"
    /\ UNCHANGED <<fcm_running, fcm_thread, fcm_listener_process,
                   notification_queue, seen_notifications, paired_server,
                   fcm_filter_keyword, fcm_handled, fcm_halt, fcm_events>>
    /\ UNCHANGED notFcmVars

\* stop(), line 757
FcmStopClear ==
    /\ fcm_stop = "clear"
    /\ fcm_listener_process' = 0
    /\ fcm_stop' = "wait"
    /\ UNCHANGED <<fcm_running, fcm_thread, fcm_procs,
                   notification_queue, seen_notifications, paired_server,
                   fcm_filter_keyword, fcm_handled, fcm_halt, fcm_events>>
    /\ UNCHANGED notFcmVars

\* stop(), lines 764-765: the wait of up to 2 s is over
FcmStopWait ==
    /\ fcm_stop = "wait"
    /\ fcm_stop' = "idle"
    /\ UNCHANGED <<fcm_running, fcm_thread, fcm_listener_process, fcm_procs,
                   notification_queue, seen_notifications, paired_server,
                   fcm_filter_keyword, fcm_handled, fcm_halt, fcm_events>>
    /\ UNCHANGED notFcmVars

\* run() entered, lines 466-487
FcmRunEnter(authenticated) ==
    /\ fcm_thread = "run"
    /\ IF fcm_running
       THEN fcm_thread' = "none" /\ UNCHANGED fcm_running
       ELSE IF ~authenticated
       THEN fcm_thread' = "none" /\ fcm_running' = FALSE
       ELSE fcm_thread' = "create" /\ fcm_running' = TRUE
    /\ UNCHANGED <<fcm_stop, fcm_listener_process, fcm_procs,
                   notification_queue, seen_notifications, paired_server,
                   fcm_filter_keyword, fcm_handled, fcm_halt, fcm_events>>
    /\ UNCHANGED notFcmVars

\* run(), lines 494-501, 510-511 and 533: the Process object is made and
\* kept in self.fcm_listener_process; with no credentials a RuntimeError
\* leads to finally
FcmCreate(has_credentials) ==
    /\ fcm_thread = "create"
    /\ IF has_credentials
       THEN \E p \in Procs :
               /\ fcm_procs[p] = "unborn"
               /\ \A q \in Procs : q < p => fcm_procs[q] # "unborn"
               /\ fcm_procs' = [fcm_procs EXCEPT ![p] = "created"]
               /\ fcm_listener_process' = p
               /\ fcm_thread' = "launch"
               /\ UNCHANGED fcm_running
       ELSE /\ fcm_thread' = "finally"
            /\ fcm_running' = FALSE
            /\ UNCHANGED <<fcm_procs, fcm_listener_process>>
    /\ UNCHANGED <<fcm_stop, notification_queue, seen_notifications,
                   paired_server, fcm_filter_keyword, fcm_handled, fcm_halt,
                   fcm_events>>
    /\ UNCHANGED notFcmVars

\* run(), line 502: self.fcm_listener_process.start(); an AttributeError on
\* None leads to finally
FcmLaunch ==
    /\ fcm_thread = "launch"
    /\ IF fcm_listener_process = 0
       THEN /\ fcm_thread' = "finally"
            /\ fcm_running' = FALSE
            /\ UNCHANGED fcm_procs
       ELSE /\ fcm_procs' = [fcm_procs EXCEPT ![fcm_listener_process] = "alive"]
            /\ fcm_thread' = "announce"
            /\ UNCHANGED fcm_running
    /\ UNCHANGED <<fcm_stop, fcm_listener_process, notification_queue,
                   seen_notifications, paired_server, fcm_filter_keyword,
                   fcm_handled, fcm_halt, fcm_events>>
    /\ UNCHANGED notFcmVars

\* run(), lines 503-513: self.fcm_listener_process.pid is read
FcmAnnounce ==
    /\ fcm_thread = "announce"
    /\ IF fcm_listener_process = 0
       THEN fcm_thread' = "finally" /\ fcm_running' = FALSE
       ELSE fcm_thread' = "loop" /\ UNCHANGED fcm_running
    /\ UNCHANGED <<fcm_stop, fcm_listener_process, fcm_procs,
                   notification_queue, seen_notifications, paired_server,
                   fcm_filter_keyword, fcm_handled, fcm_halt, fcm_events>>
    /\ UNCHANGED notFcmVars

\* run(), lines 515-526 and 533: the loop ends when running is False;
\* otherwise the next notification of the queue, if there is one, is handled
FcmLoop ==
    /\ fcm_thread = "loop"
    /\ IF ~fcm_running
       THEN /\ fcm_thread' = "finally"
            /\ UNCHANGED <<fcm_running, notification_queue, seen_notifications,
                           paired_server, fcm_handled>>
       ELSE /\ notification_queue # <<>>
            /\ LET n == Head(notification_queue)
                   r == _on_notification(n, seen_notifications, paired_server,
                                         fcm_filter_keyword)
               IN  /\ notification_queue' = Tail(notification_queue)
                   /\ seen_notifications' = r.seen
                   /\ paired_server' = r.paired
                   /\ fcm_handled' = Append(fcm_handled,
                                             [n |-> n, forward |-> r.forward])
            /\ UNCHANGED <<fcm_thread, fcm_running>>
    /\ UNCHANGED <<fcm_stop, fcm_listener_process, fcm_procs,
                   fcm_filter_keyword, fcm_halt, fcm_events>>
    /\ UNCHANGED notFcmVars

\* run(), line 534
FcmFinally ==
    /\ fcm_thread = "finally"
    /\ fcm_thread' = IF fcm_listener_process # 0 THEN "finally_alive" ELSE "none"
    /\ UNCHANGED <<fcm_running, fcm_stop, fcm_listener_process, fcm_procs,
                   notification_queue, seen_notifications, paired_server,
                   fcm_filter_keyword, fcm_handled, fcm_halt, fcm_events>>
    /\ UNCHANGED notFcmVars

\* run(), line 535; an AttributeError on None ends run()
FcmFinallyAlive ==
    /\ fcm_thread = "finally_alive"
    /\ fcm_thread' = IF fcm_listener_process # 0 /\ is_alive(fcm_listener_process)
                     THEN "finally_term" ELSE "none"
    /\ UNCHANGED <<fcm_running, fcm_stop, fcm_listener_process, fcm_procs,
                   notification_queue, seen_notifications, paired_server,
                   fcm_filter_keyword, fcm_handled, fcm_halt, fcm_events>>
    /\ UNCHANGED notFcmVars

\* the finally clause without its terminate()
TerminateInFinally_Skipped(procs, p) == procs

\* terminate() and join(timeout=2), lines 536-537
TerminateInFinally(procs, p) == [procs EXCEPT ![p] = "terminated"]

\* run(), lines 536-541; an AttributeError on None ends run()
FcmFinallyTerminate ==
    /\ fcm_thread = "finally_term"
    /\ fcm_thread' = "none"
    /\ fcm_procs' = IF fcm_listener_process = 0 THEN fcm_procs
                    ELSE TerminateInFinally(fcm_procs, fcm_listener_process)
    /\ UNCHANGED <<fcm_running, fcm_stop, fcm_listener_process,
                   notification_queue, seen_notifications, paired_server,
                   fcm_filter_keyword, fcm_handled, fcm_halt, fcm_events>>
    /\ UNCHANGED notFcmVars

FcmThreadNext ==
    \/ \E authenticated \in BOOLEAN : FcmRunEnter(authenticated)
    \/ \E has_credentials \in BOOLEAN : FcmCreate(has_credentials)
    \/ FcmLaunch
    \/ FcmAnnounce
    \/ FcmLoop
    \/ FcmFinally
    \/ FcmFinallyAlive
    \/ FcmFinallyTerminate

FcmNext ==
    \/ FcmStart
    \/ \E kw \in FcmKeywords : on_fcm_keyword_change(kw)
    \/ delete_pairing
    \/ \E n \in Notifications : FcmNotify(n)
    \/ FcmStopBegin
    \/ FcmStopCheck
    \/ FcmStopTerminate
    \/ FcmStopClear
    \/ FcmStopWait
    \/ FcmThreadNext

-----------------------------------------------------------------------------
(* MainWindow's plugin host (main.py): load_plugins at construction and at   *)
(* every timeout of the plugin_watch_timer, the                              *)
(* enable checkboxes, and the three handlers that hand a message to the      *)
(* plugins.  All of it runs on the GUI thread, one handler at a time.        *)

\* the number of plugin files in the plugins directory
MaxPlugins == 3

\* the files, numbered in the sorted order load_plugins walks them in
PluginFiles == 1..MaxPlugins

\* the imports of one file that are followed: no scan starts once a file has
\* been imported this many times
MaxImports == 2

\* the name a plugin gives: every implementation returns a literal; the files
\* after the first are copies of one plugin and give one name, since nothing
\* in load_plugin compares names
get_name(plugin) == IF plugin = 1 THEN "Audio Alert" ELSE "LED Controller"

PluginNames == {get_name(f) : f \in PluginFiles}

\* a dict from plugin names to booleans: "absent" for a key it does not hold
BoolDicts == [PluginNames -> {"absent", "True", "False"}]

Bool(b) == IF b THEN "True" ELSE "False"

\* dict.get(key, default)
Get(dict, key, default) ==
    IF dict[key] = "absent" THEN default ELSE dict[key] = "True"

NoMessage ==
    [handler |-> "none", message |-> "", broadcast |-> FALSE, plugins |-> <<>>,
     enabled |-> [n \in PluginNames |-> "absent"], raised |-> {},
     delivered |-> <<>>]

MainInit ==
    /\ main_phase = "init"
    /\ plugins = <<>>
    /\ plugin_enabled = [n \in PluginNames |-> "absent"]
    /\ loaded_plugin_keys = {}
    /\ plugin_config = [n \in PluginNames |-> "absent"]
    /\ scanned = {}
    /\ executed = [f \in PluginFiles |-> 0]
    /\ main_last = NoMessage

\* __init__ reads config.json, which holds whatever an earlier session saved
load_config(saved) ==
    /\ main_phase = "init"
    /\ main_phase' = "loading"
    /\ plugin_config' = saved
    /\ UNCHANGED <<plugins, plugin_enabled, loaded_plugin_keys, scanned,
                   executed, main_last>>
    /\ UNCHANGED notMainVars

\* the plugin_watch_timer fires (every 5000 ms) and load_plugins starts to walk
\* the plugins directory again
plugin_watch_timer ==
    /\ main_phase = "running"
    /\ \A f \in PluginFiles : executed[f] < MaxImports
    /\ main_phase' = "loading"
    /\ scanned' = {}
    /\ UNCHANGED <<plugins, plugin_enabled, loaded_plugin_keys, plugin_config,
                   executed, main_last>>
    /\ UNCHANGED notMainVars

\* how a call of load_plugin on a file that is not loaded yet ends: "ok" is
\* the whole body; "no Plugin class" is exec_module followed by the return of
\* "if not hasattr(module, 'Plugin')"; "raises" is an exception of the module
\* code, of the constructor or of get_widget, caught by the except clause
LoadOutcomes == {"ok", "no Plugin class", "raises"}

\* load_plugins comes to the next file of the directory and calls load_plugin
load_plugin(plugin_file, outcome) ==
    /\ main_phase = "loading"
    /\ \A f \in scanned : f < plugin_file
    /\ scanned' = scanned \cup {plugin_file}
    /\ IF plugin_file \in loaded_plugin_keys
         \* "if plugin_key in self.loaded_plugin_keys: return"
         THEN UNCHANGED <<plugins, plugin_enabled, loaded_plugin_keys, executed>>
         ELSE /\ executed' = [executed EXCEPT ![plugin_file] = @ + 1]
              /\ IF outcome # "ok"
                   THEN UNCHANGED <<plugins, plugin_enabled, loaded_plugin_keys>>
                   ELSE LET plugin_name == get_name(plugin_file)
                            \* the checkbox: the saved value, unchecked without one
                            checked == IF plugin_config[plugin_name] # "absent"
                                         THEN plugin_config[plugin_name] = "True"
                                         ELSE FALSE
                        IN  /\ plugin_enabled' =
                                   [plugin_enabled EXCEPT
                                        ![plugin_name] = Bool(checked)]
                            /\ plugins' = Append(plugins, plugin_file)
                            /\ loaded_plugin_keys' =
                                   loaded_plugin_keys \cup {plugin_file}
    /\ UNCHANGED <<main_phase, plugin_config, main_last>>
    /\ UNCHANGED notMainVars

\* load_plugins has walked the directory and returns, to __init__ or to the
\* event loop
MainReady ==
    /\ main_phase = "loading"
    /\ main_phase' = "running"
    /\ UNCHANGED <<plugins, plugin_enabled, loaded_plugin_keys, plugin_config,
                   scanned, executed, main_last>>
    /\ UNCHANGED notMainVars

\* the user toggles the checkbox of a loaded plugin
on_plugin_enabled_changed(plugin, is_enabled) ==
    /\ main_phase = "running"
    /\ \E i \in DOMAIN plugins : plugins[i] = plugin
    /\ LET plugin_name == get_name(plugin)
       IN  /\ plugin_enabled' =
                  [plugin_enabled EXCEPT ![plugin_name] = Bool(is_enabled)]
           /\ plugin_config' =
                  [plugin_config EXCEPT ![plugin_name] = Bool(is_enabled)]
    /\ UNCHANGED <<main_phase, plugins, loaded_plugin_keys, scanned, executed,
                   main_last>>
    /\ UNCHANGED notMainVars

\* the loop of the three handlers with the try statement left out: the first
\* call that raises ends the handler
RECURSIVE NotifyPlugins_Uncaught(_, _, _)
NotifyPlugins_Uncaught(ps, enabled, raises) ==
    IF ps = <<>> THEN <<>>
    ELSE LET plugin == Head(ps)
         IN  IF Get(enabled, get_name(plugin), TRUE)
               THEN IF plugin \in raises
                      THEN <<plugin>>
                      ELSE <<plugin>> \o NotifyPlugins_Uncaught(Tail(ps), enabled, raises)
               ELSE NotifyPlugins_Uncaught(Tail(ps), enabled, raises)

\* "for plugin in self.plugins: try: ... except Exception: self.log(...)":
\* the plugins whose on_telegram_message is called, in order; raises holds the
\* plugins whose on_telegram_message raises on this message
RECURSIVE NotifyPlugins(_, _, _)
NotifyPlugins(ps, enabled, raises) ==
    IF ps = <<>> THEN <<>>
    ELSE LET plugin == Head(ps)
             plugin_name == get_name(plugin)
         IN  IF Get(enabled, plugin_name, TRUE)
               THEN IF plugin \in raises
                      \* except Exception: the error is logged, the loop goes on
                      THEN <<plugin>> \o NotifyPlugins(Tail(ps), enabled, raises)
                      ELSE <<plugin>> \o NotifyPlugins(Tail(ps), enabled, raises)
               ELSE NotifyPlugins(Tail(ps), enabled, raises)

Handled(handler, message, broadcast, raises) ==
    [handler |-> handler, message |-> message, broadcast |-> broadcast,
     plugins |-> plugins, enabled |-> plugin_enabled, raised |-> raises,
     delivered |-> NotifyPlugins(plugins, plugin_enabled, raises)]

\* TelegramService.message_received; broadcast_message catches what its sends
\* raise, so the loop over the plugins always follows it
on_telegram_message(message, server_mode_enabled, raises) ==
    /\ main_phase = "running"
    /\ main_last' = Handled("on_telegram_message", message,
                            server_mode_enabled, raises)
    /\ UNCHANGED <<main_phase, plugins, plugin_enabled, loaded_plugin_keys,
                   plugin_config, scanned, executed>>
    /\ UNCHANGED notMainVars

\* FCMService.notification_received
on_fcm_notification(message, server_mode_enabled, raises) ==
    /\ main_phase = "running"
    /\ main_last' = Handled("on_fcm_notification", message,
                            server_mode_enabled, raises)
    /\ UNCHANGED <<main_phase, plugins, plugin_enabled, loaded_plugin_keys,
                   plugin_config, scanned, executed>>
    /\ UNCHANGED notMainVars

\* RelayClient.message_received: no broadcast
on_relay_message(message, raises) ==
    /\ main_phase = "running"
    /\ main_last' = Handled("on_relay_message", message, FALSE, raises)
    /\ UNCHANGED <<main_phase, plugins, plugin_enabled, loaded_plugin_keys,
                   plugin_config, scanned, executed>>
    /\ UNCHANGED notMainVars

\* the handlers, over the plugins the scan of __init__ loaded
MainNext ==
    \/ \E saved \in BoolDicts : load_config(saved)
    \/ \E f \in PluginFiles, o \in LoadOutcomes : load_plugin(f, o)
    \/ MainReady
    \/ \E f \in PluginFiles, b \in BOOLEAN : on_plugin_enabled_changed(f, b)
    \/ \E m \in Texts, sm \in BOOLEAN, r \in SUBSET Range(plugins) :
           on_telegram_message(m, sm, r)
    \/ \E m \in Texts, sm \in BOOLEAN, r \in SUBSET Range(plugins) :
           on_fcm_notification(m, sm, r)
    \/ \E m \in Texts, r \in SUBSET Range(plugins) : on_relay_message(m, r)

\* the scans: the one of __init__ and those of the plugin_watch_timer, with
\* the checkboxes toggled in between
PluginsNext ==
    \/ \E saved \in BoolDicts : load_config(saved)
    \/ \E f \in PluginFiles, o \in LoadOutcomes : load_plugin(f, o)
    \/ MainReady
    \/ plugin_watch_timer
    \/ \E f \in PluginFiles, b \in BOOLEAN : on_plugin_enabled_changed(f, b)

-----------------------------------------------------------------------------
(* MainWindow's choice of the source of alerts (main.py): the end of         *)
(* __init__, the single-shot timers, and the slots that start and stop the   *)
(* Telegram service, the FCM service and the relay client.  Every slot runs  *)
(* whole on the GUI thread.  Of a service only isRunning() is kept: start()  *)
(* makes it True, and stop() leaves it False (the thread ends within stop's  *)
(* wait or soon after it).                                                   *)

ModeInit ==
    /\ mode_phase = "init"
    /\ relay_mode = FALSE
    /\ fcm_mode = FALSE
    /\ relay_client_server = FALSE
    /\ relay_client = None
    /\ telegram_isRunning = FALSE
    /\ fcm_isRunning = FALSE
    /\ timers = {}

\* RelayClient.connect(): running is True after it if the connection and the
\* handshake succeeded
ConnectOutcomes == {"idle", "connected"}

\* __init__, lines 143-155, with the config an earlier session saved:
\* fcm_ready stands for is_authenticated() and a keyword that is set.  Every
\* slot that leaves relay_mode True leaves relay_client_server too.
Startup(rm, fm, server, fcm_ready) ==
    /\ mode_phase = "init"
    /\ rm => server
    /\ mode_phase' = "running"
    /\ relay_mode' = rm
    /\ fcm_mode' = fm
    /\ relay_client_server' = server
    /\ timers' = IF rm /\ server THEN {"restore_relay_connection"}
                 ELSE IF fm THEN (IF fcm_ready THEN {"fcm_start"} ELSE {})
                 ELSE {"telegram_start"}
    /\ UNCHANGED <<relay_client, telegram_isRunning, fcm_isRunning>>
    /\ UNCHANGED notModeVars

\* QTimer.singleShot(500, self.telegram_service.start) fires (lines 155,
\* 2993, 3691)
TimerTelegramStart ==
    /\ "telegram_start" \in timers
    /\ timers' = timers \ {"telegram_start"}
    /\ telegram_isRunning' = TRUE
    /\ UNCHANGED <<mode_phase, relay_mode, fcm_mode, relay_client_server,
                   relay_client, fcm_isRunning>>
    /\ UNCHANGED notModeVars

\* QTimer.singleShot(500, self.fcm_service.start) fires (line 149)
TimerFcmStart ==
    /\ "fcm_start" \in timers
    /\ timers' = timers \ {"fcm_start"}
    /\ fcm_isRunning' = TRUE
    /\ UNCHANGED <<mode_phase, relay_mode, fcm_mode, relay_client_server,
                   relay_client, telegram_isRunning>>
    /\ UNCHANGED notModeVars

\* restore_relay_connection, lines 3314-3338, fired by the timer of line 145;
\* outcome "raise" is an exception while the client is made or connected
restore_relay_connection(outcome) ==
    /\ "restore_relay_connection" \in timers
    /\ timers' = timers \ {"restore_relay_connection"}
    /\ IF ~relay_client_server
       THEN UNCHANGED <<relay_client, relay_mode, telegram_isRunning>>
       ELSE IF outcome = "raise"
       THEN /\ relay_mode' = FALSE
            /\ telegram_isRunning' = TRUE
            /\ UNCHANGED relay_client
       ELSE /\ relay_client' = outcome
            /\ UNCHANGED <<relay_mode, telegram_isRunning>>
    /\ UNCHANGED <<mode_phase, fcm_mode, relay_client_server, fcm_isRunning>>
    /\ UNCHANGED notModeVars

\* on_start_clicked, lines 2417-2432
on_start_clicked(authenticated, outcome) ==
    /\ mode_phase = "running"
    /\ IF fcm_mode
       THEN /\ fcm_isRunning' = (fcm_isRunning \/ authenticated)
            /\ UNCHANGED <<relay_client, telegram_isRunning>>
       ELSE IF relay_mode /\ relay_client # None
       THEN /\ relay_client' = IF relay_client = "connected" THEN relay_client
                               ELSE outcome
            /\ UNCHANGED <<fcm_isRunning, telegram_isRunning>>
       ELSE /\ telegram_isRunning' = TRUE
            /\ UNCHANGED <<fcm_isRunning, relay_client>>
    /\ UNCHANGED <<mode_phase, relay_mode, fcm_mode, relay_client_server, timers>>
    /\ UNCHANGED notModeVars

\* on_stop_clicked, lines 2434-2446
on_stop_clicked ==
    /\ mode_phase = "running"
    /\ IF fcm_mode
       THEN /\ fcm_isRunning' = FALSE
            /\ UNCHANGED <<relay_client, telegram_isRunning>>
       ELSE IF relay_mode /\ relay_client # None
       THEN /\ relay_client' = "idle"
            /\ UNCHANGED <<fcm_isRunning, telegram_isRunning>>
       ELSE /\ telegram_isRunning' = FALSE
            /\ UNCHANGED <<fcm_isRunning, relay_client>>
    /\ UNCHANGED <<mode_phase, relay_mode, fcm_mode, relay_client_server, timers>>
    /\ UNCHANGED notModeVars

\* on_fcm_start, lines 2555-2582, with the keyword set (without one it
\* returns at line 2565)
on_fcm_start ==
    /\ mode_phase = "running"
    /\ telegram_isRunning' = FALSE
    /\ relay_client' = IF relay_client = "connected" THEN "idle" ELSE relay_client
    /\ fcm_mode' = TRUE
    /\ relay_mode' = FALSE
    /\ fcm_isRunning' = TRUE
    /\ UNCHANGED <<mode_phase, relay_client_server, timers>>
    /\ UNCHANGED notModeVars

\* on_fcm_stop, lines 2602-2604
on_fcm_stop ==
    /\ mode_phase = "running"
    /\ fcm_isRunning' = FALSE
    /\ UNCHANGED <<mode_phase, relay_mode, fcm_mode, relay_client_server,
                   relay_client, telegram_isRunning, timers>>
    /\ UNCHANGED notModeVars

\* on_fcm_switch_to_telegram, lines 2621-2643, confirmed by the user
on_fcm_switch_to_telegram ==
    /\ mode_phase = "running"
    /\ fcm_isRunning' = FALSE
    /\ fcm_mode' = FALSE
    /\ telegram_isRunning' = TRUE
    /\ UNCHANGED <<mode_phase, relay_mode, relay_client_server, relay_client,
                   timers>>
    /\ UNCHANGED notModeVars

\* open_settings, lines 2986-2993, with the dialog accepted; import_clan_code,
\* lines 3686-3691, ends the same way
open_settings ==
    /\ mode_phase = "running"
    /\ telegram_isRunning' = FALSE
    /\ timers' = timers \cup {"telegram_start"}
    /\ UNCHANGED <<mode_phase, relay_mode, fcm_mode, relay_client_server,
                   relay_client, fcm_isRunning>>
    /\ UNCHANGED notModeVars

\* import_server_code, lines 3216-3242, with the code valid and confirmed
import_server_code(outcome) ==
    /\ mode_phase = "running"
    /\ relay_client' = outcome
    /\ relay_client_server' = TRUE
    /\ relay_mode' = TRUE
    /\ telegram_isRunning' = FALSE
    /\ UNCHANGED <<mode_phase, fcm_mode, fcm_isRunning, timers>>
    /\ UNCHANGED notModeVars

\* disconnect_from_relay, lines 3270-3299, confirmed by the user
disconnect_from_relay ==
    /\ mode_phase = "running"
    /\ relay_client' = None
    /\ relay_client_server' = FALSE
    /\ relay_mode' = FALSE
    /\ telegram_isRunning' = TRUE
    /\ UNCHANGED <<mode_phase, fcm_mode, fcm_isRunning, timers>>
    /\ UNCHANGED notModeVars

\* the relay connection ends: _receive_messages sets running False
\* (relay_server.py:452-454)
RelayConnectionEnds ==
    /\ relay_client = "connected"
    /\ relay_client' = "idle"
    /\ UNCHANGED <<mode_phase, relay_mode, fcm_mode, relay_client_server,
                   telegram_isRunning, fcm_isRunning, timers>>
    /\ UNCHANGED notModeVars

\* TelegramService.run() returns by itself (telegram_service.py:41-49, 87-90)
TelegramThreadEnds ==
    /\ telegram_isRunning
    /\ telegram_isRunning' = FALSE
    /\ UNCHANGED <<mode_phase, relay_mode, fcm_mode, relay_client_server,
                   relay_client, fcm_isRunning, timers>>
    /\ UNCHANGED notModeVars

ModeNext ==
    \/ \E rm, fm, server, fcm_ready \in BOOLEAN : Startup(rm, fm, server, fcm_ready)
    \/ TimerTelegramStart
    \/ TimerFcmStart
    \/ \E o \in ConnectOutcomes \cup {"raise"} : restore_relay_connection(o)
    \/ \E a \in BOOLEAN, o \in ConnectOutcomes : on_start_clicked(a, o)
    \/ on_stop_clicked
    \/ on_fcm_start
    \/ on_fcm_stop
    \/ on_fcm_switch_to_telegram
    \/ open_settings
    \/ \E o \in ConnectOutcomes : import_server_code(o)
    \/ disconnect_from_relay
    \/ RelayConnectionEnds
    \/ TelegramThreadEnds

-----------------------------------------------------------------------------
(* Specifications *)

Init == RelayInit /\ FrameInit /\ TgInit /\ FcmInit /\ MainInit /\ ModeInit

SpecRelay == Init /\ [][RelayNext]_vars

SpecFrame == Init /\ [][FrameNext]_vars

SpecTelegram == Init /\ [][TgNext]_vars

SpecFcm == Init /\ [][FcmNext]_vars

SpecMain == Init /\ [][MainNext]_vars

SpecPlugins == Init /\ [][PluginsNext]_vars

SpecMode == Init /\ [][ModeNext]_vars

\* the service's thread keeps running while it has a step to take; nothing
\* obliges the user or Telegram to act
FairSpecTelegram == SpecTelegram /\ WF_vars(TgThreadNext)

-----------------------------------------------------------------------------
(* Properties of the relay server and client, checked under SpecRelay.       *)

\* number of frames equal to f in the frame sequence fs
Count(fs, f) == Cardinality({i \in 1..Len(fs) : fs[i] = f})

ResultFrames(fs) == {i \in 1..Len(fs) : fs[i].type \in {"auth_success", "auth_failed"}}

\* C1: with a password set, a connection is in the client list only if during
\* the handshake it sent an auth_response whose password_hash equals the
\* server's hash; a connection whose handshake failed is closed, is not in
\* the list and was never sent a broadcast frame.
C1_OnlyAuthenticatedListed ==
    \A c \in Conns :
        /\ (auth[c] # "none" /\ (c \in Range(clients) \/ Contents(wrote[c]) # <<>>)) =>
              /\ auth[c] = "ok"
              /\ Len(rcvd[c]) = 1
              /\ rcvd[c][1].type = "auth_response"
              /\ rcvd[c][1].password_hash = password_hash
        /\ auth[c] = "failed" =>
              /\ conn[c].srv = "closed"
              /\ c \notin Range(clients)
              /\ Contents(wrote[c]) = <<>>

\* C1 witness: one connection passed the handshake, is listed and was sent a
\* broadcast; another sent something else and failed.
C1_Witness ==
    \E c, d \in Conns :
        /\ auth[c] = "ok" /\ c \in Range(clients) /\ Contents(wrote[c]) # <<>>
        /\ auth[d] = "failed" /\ rcvd[d] # <<>>

\* C2: every message frame the RelayClient reads from its socket is emitted
\* as message_received: none is consumed without being emitted.
C2_ConsumedIsEmitted ==
    \A c \in Conns : consumed[c] = emitted[c]

\* C3 as stated: when broadcast_message returns, the client list is the list
\* before the call minus exactly the clients whose send raised; each client
\* still listed was sent exactly one frame {message, m}; each evicted socket
\* is closed.
C3_ListIsBeforeMinusFailed ==
    [][BroadcastEnd =>
          /\ clients' = RemoveAll(bcast.before, bcast.disconnected)
          /\ \A c \in Range(clients') : Count(wrote'[c], Message(bcast.msg)) = 1
          /\ \A c \in Range(bcast.disconnected) : conn'[c].srv = "closed"]_vars

\* C3 amended: when broadcast_message returns, the client list is the list
\* before the call minus the clients whose send raised, followed by the
\* clients the accept thread appended during the call whose send did not
\* raise; each client listed before the call and still listed was sent
\* exactly one frame {message, m}, each appended one at most one; each
\* evicted socket is closed.
C3_ListIsBeforePlusAcceptedMinusFailed ==
    [][BroadcastEnd =>
          LET kept == RemoveAll(bcast.before, bcast.disconnected) IN
          /\ Len(clients') >= Len(kept)
          /\ SubSeq(clients', 1, Len(kept)) = kept
          /\ \A i \in (Len(kept) + 1)..Len(clients') :
                clients'[i] \notin Range(bcast.before)
          /\ Range(clients') \cap Range(bcast.disconnected) = {}
          /\ \A c \in Range(kept) : Count(wrote'[c], Message(bcast.msg)) = 1
          /\ \A c \in Range(clients') : Count(wrote'[c], Message(bcast.msg)) <= 1
          /\ \A c \in Range(bcast.disconnected) : conn'[c].srv = "closed"]_vars

\* C3 witness: a broadcast has returned that started from two listed clients,
\* evicted one and kept the other.
C3_Witness ==
    /\ bcast.pc = "idle"
    /\ Len(bcast.before) = 2
    /\ Len(bcast.disconnected) = 1
    /\ clients = RemoveAll(bcast.before, bcast.disconnected)
    /\ \A c \in Range(bcast.disconnected) : conn[c].srv = "closed"
    /\ \A c \in Range(clients) : Count(wrote[c], Message(bcast.msg)) = 1

\* C4: in the password handshake the server's first frame is auth_required;
\* a result frame is written only after an auth_response was received, at
\* most once (exactly once when the peer is still there), and it is
\* auth_success iff the received hash equals the server's; no message frame
\* is written to the connection before auth_success.
C4_HandshakeOrder ==
    \A c \in Conns :
        auth[c] # "none" =>
            LET w == wrote[c] IN
            /\ w # <<>> => w[1] = AuthRequired
            /\ Count(w, AuthRequired) <= 1
            /\ Cardinality(ResultFrames(w)) <= 1
            /\ \A i \in ResultFrames(w) :
                  /\ i = 2
                  /\ Len(rcvd[c]) = 1
                  /\ rcvd[c][1].type = "auth_response"
                  /\ (w[i] = AuthSuccess) <=> (rcvd[c][1].password_hash = password_hash)
            /\ \A i \in 1..Len(w) :
                  w[i].type = "message" => \E j \in 1..(i - 1) : w[j] = AuthSuccess
            /\ (/\ auth[c] \in {"ok", "failed"}
                /\ rcvd[c] # <<>>
                /\ rcvd[c][1].type = "auth_response"
                /\ conn[c].cli = "open") => Cardinality(ResultFrames(w)) = 1

\* C4 witness: one handshake ended in auth_success followed by a message
\* frame, another in auth_failed.
C4_Witness ==
    \E c, d \in Conns :
        /\ Len(wrote[c]) >= 3 /\ wrote[c][2] = AuthSuccess /\ wrote[c][3].type = "message"
        /\ Len(wrote[d]) = 2 /\ wrote[d][2] = AuthFailed

\* C6: what a client emits from a connection is a subsequence, in order and
\* without duplicates, of the broadcasts the server made while the connection
\* was in its client list (broadcast calls are numbered in call order).
C6_PerSocketFifo ==
    \A c \in Conns :
        /\ IsSubseq(emitted[c], Contents(wrote[c]))
        /\ \A i, j \in 1..Len(emitted[c]) : i < j => emitted[c][i] < emitted[c][j]
        /\ \A i \in 1..Len(wrote[c]) :
              wrote[c][i].type = "message" => wrote[c][i].content <= nBroadcasts

\* C6 witness: a client has emitted two broadcasts from one connection.
C6_Witness ==
    \E c \in Conns : Len(emitted[c]) >= 2

\* C7: at most one accept-loop thread is executing _accept_connections.
C7_OneAcceptThread ==
    Cardinality({t \in Threads : Alive(t)}) <= 1

\* C8: once the receive loop has ended running is False, and from then on the
\* RelayClient changes (a new socket, running True again) only through a
\* call of connect() from outside.
C8_NoReconnect ==
    /\ [](\A k \in RelayClients : client[k].rx = "done" => ~client[k].running)
    /\ [][\A k \in RelayClients :
             (client[k].rx = "done" /\ client[k].pc = "idle" /\ client'[k] # client[k])
                 => \E pw \in ClientPasswords : Connect(k, pw)]_vars
    /\ [][\A k \in RelayClients :
             (~client[k].running /\ client'[k].running)
                 => (client[k].pc # "idle" /\ conn[client[k].socket].cli = "open")]_vars

\* C8 witness: the server closed the connection, the receive loop ended and
\* the client is not running; its own socket was never closed by disconnect().
C8_Witness ==
    \E k \in RelayClients :
        /\ client[k].rx = "done"
        /\ ~client[k].running
        /\ conn[client[k].socket].srv = "closed"
        /\ conn[client[k].socket].cli = "open"
        /\ emitted[client[k].socket] # <<>>

-----------------------------------------------------------------------------
(* Property of the framing, checked under SpecFrame.                         *)

IsPrefix(a, b) == Len(a) <= Len(b) /\ SubSeq(b, 1, Len(a)) = a

\* C5: every frame written is 4 bytes holding the payload length, most
\* significant byte first, followed by exactly that many payload bytes; the
\* reader recovers the payloads that were sent, whole and in order, and once
\* it has read everything it has recovered all of them.
C5_FramingRoundTrip ==
    /\ \A i \in 1..Len(written) :
          LET b == written[i] IN
          /\ Len(b) = 4 + Len(sent[i])
          /\ ((b[1] * 256 + b[2]) * 256 + b[3]) * 256 + b[4] = Len(sent[i])
          /\ SubSeq(b, 5, Len(b)) = sent[i]
    /\ IsPrefix(got, sent)
    /\ (wire = <<>> /\ rx.pc = "len" /\ rx.data = <<>>) => got = sent
    /\ rx.pc = "ended" => (peer_closed /\ got = sent)

\* C5 witness: two frames, the long one among them, were written back to
\* back and recovered one by one from reads that cut across the frame
\* boundaries.
C5_Witness ==
    /\ Len(sent) = 2
    /\ got = sent
    /\ \E i \in 1..2 : Len(sent[i]) = LongLen
    /\ wire = <<>>

-----------------------------------------------------------------------------
(* TelegramService: restart and retry *)

\* C9: after a connection-class error while polling, unless stop() is called,
\* the service eventually begins a new run: it calls getMe again (and then
\* resumes polling).  tg_pending is "restart" from the error until the next
\* getMe.
C9_RestartReachesGetMe ==
    (tg_pending = "restart") ~> (tg_pending # "restart" \/ tg_stopped)

\* C10: after the initial connection test fails with a timeout, a
\* TelegramError other than Unauthorized/Not Found or another exception,
\* unless stop() is called during the delay, the service makes a new getMe
\* call.  tg_pending is "retry" from the failure until the next getMe.
C10_RetryReachesGetMe ==
    (tg_pending = "retry") ~> (tg_pending # "retry" \/ tg_stopped)

-----------------------------------------------------------------------------
(* TelegramService: what is emitted *)

\* does the keyword occur in the text when case is ignored
OccursIgnoringCase(keyword, text) ==
    \/ keyword = ""
    \/ keyword = "RAID" /\ text = "Raid Alarm"

\* C11: message_received is emitted for an update only if its message or
\* channel post belongs to the configured chat, its message id is greater
\* than config last_message_id, and its text passes the keyword filter
\* (filter disabled, keyword empty, or keyword contained in the text, case
\* ignored).
C11_EmittedOnlyIfChatNewAndFiltered ==
    \A i \in 1..Len(tg_emitted) :
        LET e == tg_emitted[i]
        IN  /\ e.update.kind \in {"message", "channel_post"}
            /\ e.update.chat_ok
            /\ e.update.message_id > e.last_message_id
            /\ \/ ~e.filter_enabled
               \/ e.filter_keyword = ""
               \/ OccursIgnoringCase(e.filter_keyword, e.update.text)

\* an emission made with the filter enabled and a keyword set, of a text
\* that holds the keyword in another case
C11_Witness ==
    \E i \in 1..Len(tg_emitted) :
        /\ tg_emitted[i].filter_enabled
        /\ tg_emitted[i].filter_keyword = "RAID"
        /\ tg_emitted[i].update.text = "Raid Alarm"

C12_WitnessRefetched ==
    /\ tg_emitted # <<>>
    /\ tg_thread = "poll"
    /\ last_update_id = 0
    /\ tg_getme >= 2
    /\ \E i \in 1..Len(tg_updates) :
           tg_updates[i] = tg_emitted[Len(tg_emitted)].update

-----------------------------------------------------------------------------
(* TelegramService: stop() *)

\* a step of the thread that calls bot.get_updates (line 124)
CallsGetUpdates ==
    \/ TgPoll /\ tg_running
    \/ \E err \in PollErrors : TgPollError(err)

\* C13: after stop() has set running to False, the polling loop issues no
\* further getUpdates request, and the thread's run() eventually returns
\* with running False.  tg_halt holds from stop() until a new thread is
\* started.
C13_StopEndsPolling ==
    /\ [][tg_halt => ~CallsGetUpdates]_vars
    /\ tg_halt ~> (tg_thread = "none" /\ ~tg_running)

\* the same for a stop() that finds the thread past the first statements of
\* run(): in the connection test, the polling loop or one of the sleeps
C13_StopPastRunEntryEndsPolling ==
    (tg_halt /\ ~tg_running /\ tg_thread \notin {"run", "retry_run"})
        ~> (tg_thread = "none" /\ ~tg_running)

-----------------------------------------------------------------------------
(* FCMService *)

\* C14: for any interleaving of stop() with the service thread's run(), once
\* stop() has been called and run() has returned, no listener subprocess
\* started by the service is alive.  fcm_halt holds from the call of stop()
\* until a new thread is started.
C14_NoListenerAfterStopAndRun ==
    (fcm_halt /\ fcm_thread = "none") => \A p \in Procs : fcm_procs[p] # "alive"

\* stop() was called before the subprocess existed, found nothing to
\* terminate and has returned; run() started the subprocess after that and
\* has returned too
C14_Witness ==
    /\ fcm_halt
    /\ fcm_thread = "none"
    /\ fcm_stop = "idle"
    /\ fcm_listener_process # 0
    /\ fcm_procs[fcm_listener_process] = "terminated"

RECURSIVE Forwarded(_)
\* the notifications emitted as message_received, in order
Forwarded(handled) ==
    IF handled = <<>> THEN <<>>
    ELSE IF Head(handled).forward
         THEN <<Head(handled).n>> \o Forwarded(Tail(handled))
         ELSE Forwarded(Tail(handled))

\* C15: a notification whose id (persistent_id, else id) is in the seen set
\* is never forwarded, the seen set only grows, and each non-empty
\* notification id is forwarded at most once.
C15_SeenIdForwardedOnce ==
    /\ [][\A k \in 1..Len(fcm_handled') :
              (k > Len(fcm_handled) /\ fcm_handled'[k].forward) =>
                  notif_id(fcm_handled'[k].n) \notin seen_notifications]_vars
    /\ [][seen_notifications \subseteq seen_notifications']_vars
    /\ [](LET forwarded == Forwarded(fcm_handled)
          IN  \A j, k \in 1..Len(forwarded) :
                  (j < k /\ Truthy(notif_id(forwarded[j])))
                      => notif_id(forwarded[j]) # notif_id(forwarded[k]))

\* a notification was forwarded, and one with the same id, carried in the
\* other field, was handled after it and not forwarded
C15_Witness ==
    \E j, k \in 1..Len(fcm_handled) :
        /\ j < k
        /\ fcm_handled[j].forward
        /\ ~fcm_handled[k].forward
        /\ fcm_handled[j].n # fcm_handled[k].n
        /\ notif_id(fcm_handled[j].n) = notif_id(fcm_handled[k].n)

\* C20: backlog skipping applies to the first polling iteration only: when
\* an iteration of the polling loop is over, whether get_updates returned a
\* batch (first_run's continue included) or raised a timeout or an error
\* that is not connection-class, first_run is False, so no later batch is
\* marked as seen without being processed.
C20_FirstRunEndsWithFirstIteration ==
    [][(/\ tg_thread = "poll"
        /\ (tg_thread' = "sleep" \/ last_update_id' # last_update_id))
       => ~first_run']_vars

-----------------------------------------------------------------------------
(* FCMService: which notifications are forwarded *)

\* the channelId is the word alarm, in small or capital letters
IsAlarmType(type) == type \in {"alarm", "Alarm"}

\* C23: only alarm notifications are forwarded: every notification emitted
\* as message_received has a channelId equal to 'alarm' when case is
\* ignored; one with another type or with no type is not forwarded.
C23_OnlyAlarmTypeForwarded ==
    \A k \in 1..Len(fcm_handled) :
        fcm_handled[k].forward => IsAlarmType(fcm_handled[k].n.type)

\* C23 for the notifications that carry a channelId: one whose type is not
\* 'alarm' is not forwarded
C23_OtherTypeNotForwarded ==
    \A k \in 1..Len(fcm_handled) :
        (fcm_handled[k].forward /\ Truthy(fcm_handled[k].n.type))
            => IsAlarmType(fcm_handled[k].n.type)

\* the notification handled by this step, with whether it was forwarded
JustHandled == fcm_handled'[Len(fcm_handled')]

\* C24: while the service is paired with a server, a notification whose
\* server id differs from the paired id, or whose ip:port differs from the
\* paired ip:port, is not forwarded; a differing server name alone does not
\* keep a notification from being forwarded.
C24_OtherServerIgnored ==
    [][(Len(fcm_handled') > Len(fcm_handled) /\ paired_server.id # None)
       => ((\/ JustHandled.n.server_id # paired_server.id
            \/ JustHandled.n.ip # paired_server.ip)
           => ~JustHandled.forward)]_vars

\* C24 for a notification that differs from the paired server in both the
\* id and the ip:port: it is not forwarded
C24_OtherIdAndIpIgnored ==
    [][(Len(fcm_handled') > Len(fcm_handled) /\ paired_server.id # None)
       => ((/\ JustHandled.n.server_id # paired_server.id
            /\ JustHandled.n.ip # paired_server.ip)
           => ~JustHandled.forward)]_vars

\* C24, last part: the service is paired and has forwarded a notification
\* that names the paired id and ip:port under another server name
C24_NameAloneDoesNotBlock ==
    /\ paired_server.id # None
    /\ \E k \in 1..Len(fcm_handled) :
           /\ fcm_handled[k].forward
           /\ fcm_handled[k].n.server_id = paired_server.id
           /\ fcm_handled[k].n.ip = paired_server.ip
           /\ fcm_handled[k].n.name # paired_server.name

\* does the keyword, put in small letters, occur in the text put in small
\* letters
KeywordOccurs(keyword, text) ==
    keyword \in {"raid", "RAID"} /\ text = "Raid Alarm"

\* C25: the FCM keyword is mandatory: while config fcm_filter_keyword is
\* empty no notification is forwarded, and while it is set a notification is
\* forwarded only if the keyword occurs, case ignored, in its title, message
\* and string-valued body fields.
C25_KeywordMandatory ==
    [][(Len(fcm_handled') > Len(fcm_handled) /\ JustHandled.forward)
       => /\ fcm_filter_keyword # ""
          /\ KeywordOccurs(fcm_filter_keyword, JustHandled.n.text)]_vars

\* an alarm of server s1 without an id was handled while the keyword was
\* empty and not forwarded; the keyword was then set, in capitals, and the
\* same notification was forwarded
C25_Witness ==
    /\ fcm_filter_keyword = "RAID"
    /\ \E i, k \in 1..Len(fcm_handled) :
           /\ i < k
           /\ fcm_handled[i].n = fcm_handled[k].n
           /\ fcm_handled[i].n.type = "alarm"
           /\ fcm_handled[i].n.server_id = "s1"
           /\ notif_id(fcm_handled[i].n) = None
           /\ ~fcm_handled[i].forward
           /\ fcm_handled[k].forward

-----------------------------------------------------------------------------
(* TelegramService: the backlog and last_message_id *)

\* the thread is inside the loop of poll_messages
InPollLoop == tg_thread \in {"poll", "sleep"}

\* C21 as stated: no update of the first non-empty batch of a poll_messages
\* call is emitted.
C21_FirstNonEmptyBatchNotEmitted ==
    [][(tg_thread = "poll" /\ last_update_id = 0 /\ last_update_id' > 0)
       => tg_emitted' = tg_emitted]_vars

\* C21: no update of a non-empty batch that get_updates returns while
\* first_run is still True is emitted; last_update_id becomes the id of the
\* last of them, and from then on get_updates is called with an offset past
\* them, so that none of them comes back during that poll_messages call.
C21_FirstRunBatchSkipped ==
    /\ [][(tg_thread = "poll" /\ first_run /\ last_update_id' # last_update_id)
          => /\ tg_emitted' = tg_emitted
             /\ tg_updates # <<>>
             /\ last_update_id' = tg_updates[Len(tg_updates)].update_id
             /\ \A i \in 1..Len(tg_updates) :
                    tg_updates[i].update_id <= last_update_id']_vars
    /\ [][(InPollLoop /\ InPollLoop') => last_update_id' >= last_update_id]_vars
    /\ []((InPollLoop /\ last_update_id > 0) =>
              \A u \in Range(get_updates(<<last_update_id + 1>>)) :
                  u.update_id > last_update_id)

\* the first batch of a call held a message of the configured chat and was
\* marked as seen: nothing has been emitted, last_message_id is that
\* message's id, and Telegram still holds the batch when the next poll begins
C21_Witness ==
    /\ tg_thread = "poll"
    /\ ~first_run
    /\ last_update_id > 0
    /\ tg_emitted = <<>>
    /\ config.last_message_id > 0
    /\ tg_updates # <<>>

\* C22: config["last_message_id"] never decreases through an action of the
\* polling loop: no iteration ends with a lower value than it began with,
\* and no assignment of the first-run marking writes a value below the one
\* it replaces.
C22_LastMessageIdNeverDecreases ==
    /\ [][config'.last_message_id >= config.last_message_id]_vars
    /\ [][(tg_thread = "poll" /\ tg_running /\ first_run /\ tg_updates # <<>>
           /\ last_update_id' # last_update_id)
          => LET writes == <<config.last_message_id>> \o MarkSeenWrites(tg_updates)
             IN  \A i \in 1..(Len(writes) - 1) : writes[i] <= writes[i + 1]]_vars

\* C22 between iterations only: no step of the service ends with a lower
\* last_message_id than it began with
C22_NoIterationEndsLower ==
    [][config'.last_message_id >= config.last_message_id]_vars

-----------------------------------------------------------------------------
(* More properties of the relay server and client, checked under SpecRelay.  *)

\* C17: a RelayClient connecting to a running relay server that has no
\* password reaches the connected state (running True, receive thread
\* started) without sending an auth frame, whether or not the server
\* broadcasts during the attempt: no connect() made against such a server,
\* still running, without a password and with its end of the connection not
\* closed when _handle_auth returns, ends in failure.
C17_NoPasswordServerConnects ==
    [][\A k \in RelayClients :
          (/\ client[k].pc = "auth_first"
           /\ client'[k].pc = "idle"
           /\ server_running
           /\ password_hash = None
           /\ conn[client[k].socket].srv \in {"backlog", "open"}
           /\ conn[client[k].socket].lsock \in {0, server_socket.gen})
          => (/\ client'[k].running
              /\ client'[k].rx = "recv"
              /\ conn'[client[k].socket].c2s = <<>>)]_vars

\* C18: after stop() has returned and until the next start(), the client
\* list is empty and every client socket the server accepted is closed,
\* whatever the accept thread was doing when stop() ran; only the socket of
\* a handshake that has not ended yet is left out of account.
C18_StoppedServerHasNoClient ==
    ~server_running =>
        /\ clients = <<>>
        /\ \A c \in Conns :
               conn[c].srv = "open" =>
                   \E t \in Threads : thread[t].pc = "auth" /\ thread[t].conn = c

\* the password RelayClient k holds is missing or is not the server's
WrongPassword(k) ==
    password_hash # None /\ _hash_password(client[k].password) # password_hash

\* C19, second sentence: a client without a password that reads
\* auth_required sends no auth_response, is not running, and has closed its
\* socket when connect() returns.
C19_ChallengedWithoutPasswordFails ==
    [][\A k \in RelayClients :
          (/\ client[k].pc = "auth_first"
           /\ client[k].password = None
           /\ conn[client[k].socket].s2c # <<>>
           /\ Head(conn[client[k].socket].s2c).type = "auth_required"
           /\ client'[k] # client[k])
          => (/\ client'[k].pc = "idle"
              /\ ~client'[k].running
              /\ conn'[client[k].socket].c2s = conn[client[k].socket].c2s
              /\ conn'[client[k].socket].cli = "closed")]_vars

\* C19: a RelayClient whose password is missing or does not match the
\* server's never sets running to True and never emits message_received,
\* and a client without a password that reads auth_required fails without
\* sending an auth_response and closes its socket.
C19_WrongPasswordNeverConnects ==
    /\ [][\A k \in RelayClients :
             WrongPassword(k) =>
                 /\ ~(~client[k].running /\ client'[k].running)
                 /\ (client[k].socket # 0 =>
                        emitted'[client[k].socket] = emitted[client[k].socket])]_vars
    /\ C19_ChallengedWithoutPasswordFails

-----------------------------------------------------------------------------
(* Properties of the choice of source, checked under SpecMode.               *)

\* C26: while config relay_mode is True no action of the main window starts
\* the Telegram service: whenever the service goes from not running to
\* running, relay_mode is False at that moment.
C26_NoTelegramStartInRelayMode ==
    [][(~telegram_isRunning /\ telegram_isRunning') => ~relay_mode']_vars

\* C26, the conclusion: a connected relay client and a running Telegram
\* service never exist together
C26_NeverBothSources ==
    ~(relay_client = "connected" /\ telegram_isRunning)

-----------------------------------------------------------------------------
(* Properties of the plugin host: C16 is checked under SpecMain, C27 under   *)
(* SpecPlugins.                                                              *)

\* C16: each message the main window handles, whether it came from Telegram,
\* from FCM or from the relay client, is passed to on_telegram_message of
\* every loaded plugin whose enabled state is true, in load order, and of no
\* plugin whose enabled state is false; a call that raises does not keep the
\* message from the plugins after it.
C16_EnabledPluginsGetEveryMessage ==
    main_last.handler # "none" =>
        main_last.delivered =
            SelectSeq(main_last.plugins,
                      LAMBDA p : main_last.enabled[get_name(p)] = "True")

\* a message went to a plugin whose call raised and then to a later plugin,
\* while a loaded plugin that is disabled did not get it
C16_Witness ==
    /\ main_last.handler # "none"
    /\ \E i, j \in DOMAIN main_last.delivered :
           /\ i < j
           /\ main_last.delivered[i] \in main_last.raised
    /\ \E k \in DOMAIN main_last.plugins :
           /\ main_last.enabled[get_name(main_last.plugins[k])] = "False"
           /\ \A i \in DOMAIN main_last.delivered :
                  main_last.delivered[i] # main_last.plugins[k]

\* C27: across any number of load_plugins scans a plugin file is imported and
\* instantiated at most once: the module code of a file that a scan has
\* already been through is not executed again, and the plugins list never
\* holds two instances made from one file.
C27_EachFileImportedAtMostOnce ==
    /\ \A f \in PluginFiles : executed[f] <= 1
    /\ \A i, j \in DOMAIN plugins : plugins[i] = plugins[j] => i = j

\* C27, the part the key set gives: a file whose load went through to the end
\* is not executed by any later scan, and no file is in the plugins list twice
C27_LoadedFileNotImportedAgain ==
    [][/\ \A f \in loaded_plugin_keys : executed'[f] = executed[f]
       /\ \A i, j \in DOMAIN plugins' : plugins'[i] = plugins'[j] => i = j]_vars

\* a later scan has gone past a loaded file without executing it and has
\* executed, for the second time, a file whose first load had failed
C27_SecondScan ==
    /\ main_phase = "loading"
    /\ \E f, g \in scanned :
           /\ f \in loaded_plugin_keys
           /\ executed[f] = 1
           /\ g \notin loaded_plugin_keys
           /\ executed[g] = 2

=============================================================================
